---- MODULE Spec2Model ----
(***************************************************************************)
(* Model of the locinet data layer (the 11ty global data file that reads   *)
(* the work records, the loci taxonomy and the author cache and builds the *)
(* structures the templates consume).                                      *)
(*                                                                         *)
(* JavaScript values are modelled as tagged records, so that a field that  *)
(* may hold a string, a number, a list, a mapping, null or undefined can   *)
(* be inspected the way the code inspects it (truthiness, Array.isArray,   *)
(* typeof, Object.keys in key order).                                      *)
(***************************************************************************)
EXTENDS Integers, Sequences, FiniteSets, TLC

VARIABLES
    pc,          \* position of the run
    fileId,      \* parseWork: the work id the record is looked up under
    data,        \* parseWork: the raw record (what yaml.load returned)
    result,      \* parseWork: what the call produced (null, a Work, or a raise)
    translatorsMap, \* the translator metadata (translators.yaml)
    files,       \* the work files: [name, data], data being what yaml.load gives
    authors,     \* the author cache, qid -> profile
    works,       \* what loadAllWorks returned
    authorPages, \* what buildAuthorPages returned
    lociIndex,   \* the loci index of the build under way (or of the last one)
    prevIndex,   \* the loci index the previous build returned
    runs,        \* the number of builds started
    errors,      \* what loadAllWorks wrote with console.error: [file, message]
    lociTree,    \* the taxonomy (what yaml.load gave for loci.yaml)
    lociFlat,    \* what buildLociFlat returned
    translatorIndex, \* what buildTranslatorIndex returned
    whatsNew,    \* the recency feed
    worksIndex   \* the author pages by first work year

vars == <<pc, fileId, data, result, translatorsMap, files, authors, works, authorPages,
          lociIndex, prevIndex, runs, errors, lociTree, lociFlat, translatorIndex, whatsNew,
          worksIndex>>

----------------------------------------------------------------------------
(* JavaScript values *)

JUndef == [t |-> "undef"]
JNull == [t |-> "null"]
JStr(s) == [t |-> "str", s |-> s]
JNum(n) == [t |-> "num", n |-> n]
JBool(b) == [t |-> "bool", b |-> b]
JList(items) == [t |-> "list", items |-> items]
JMap(keys, vals) == [t |-> "map", keys |-> keys, vals |-> vals]
\* a Date object (js-yaml builds one from an unquoted YAML date)
JDate(iso) == [t |-> "date", iso |-> iso]

\* An object literal written as <<key, value>> pairs, in key order.
Obj(pairs) ==
    JMap([i \in 1..Len(pairs) |-> pairs[i][1]], [i \in 1..Len(pairs) |-> pairs[i][2]])

\* What a thrown TypeError leaves in place of a return value.
Raise == [t |-> "raise"]

IsNullish(j) == j.t \in {"undef", "null"}
IsArray(j) == j.t = "list"
\* typeof j === "object" for a non-null j: mappings and arrays
IsObject(j) == j.t \in {"map", "list", "date"}

\* if (j) ...
Truthy(j) ==
    CASE j.t = "undef" -> FALSE
      [] j.t = "null" -> FALSE
      [] j.t = "str" -> j.s # ""
      [] j.t = "num" -> j.n # 0
      [] j.t = "bool" -> j.b
      [] OTHER -> TRUE

\* The keys "0", "1", ... of an array or a string of length n
Indices(n) == [i \in 1..n |-> ToString(i - 1)]

\* Object.keys(j) for a non-nullish j
Keys(j) ==
    CASE j.t = "map" -> j.keys
      [] j.t = "list" -> Indices(Len(j.items))
      [] j.t = "str" -> Indices(Len(j.s))
      [] OTHER -> <<>>

\* the values in Object.keys order
Vals(j) ==
    CASE j.t = "map" -> j.vals
      [] j.t = "list" -> j.items
      [] j.t = "str" -> [i \in 1..Len(j.s) |-> JStr(SubSeq(j.s, i, i))]
      [] OTHER -> <<>>

HasKey(j, k) == \E i \in 1..Len(Keys(j)) : Keys(j)[i] = k

\* the value listed under key k, undefined when k is not among the keys
ValueAt(ks, vs, k) ==
    IF \E i \in 1..Len(ks) : ks[i] = k
    THEN vs[CHOOSE i \in 1..Len(ks) : ks[i] = k]
    ELSE JUndef

\* j[k] / j.k for a non-nullish j (undefined when the property is absent)
Get(j, k) == ValueAt(Keys(j), Vals(j), k)

RECURSIVE JoinStr(_)
\* String(j)
String(j) ==
    CASE j.t = "undef" -> "undefined"
      [] j.t = "null" -> "null"
      [] j.t = "str" -> j.s
      [] j.t = "num" -> ToString(j.n)
      [] j.t = "bool" -> IF j.b THEN "true" ELSE "false"
      [] j.t = "list" -> JoinStr(j.items)
      [] OTHER -> "[object Object]"

\* Array.prototype.join(","): null and undefined items give the empty string
JoinStr(items) ==
    IF Len(items) = 0 THEN ""
    ELSE LET h == IF IsNullish(Head(items)) THEN "" ELSE String(Head(items))
         IN  IF Len(items) = 1 THEN h ELSE h \o "," \o JoinStr(Tail(items))

----------------------------------------------------------------------------
(* Strings *)

Char(s, i) == SubSeq(s, i, i)

UpperCase == "ABCDEFGHIJKLMNOPQRSTUVWXYZ"
LowerCase == "abcdefghijklmnopqrstuvwxyz"
DigitChars == "0123456789"

InStr(c, s) == \E i \in 1..Len(s) : Char(s, i) = c

\* \s of a regular expression (the whitespace the records can carry)
IsSpace(c) == c = " "

ToLowerChar(c) ==
    IF InStr(c, UpperCase)
    THEN Char(LowerCase, CHOOSE i \in 1..Len(UpperCase) : Char(UpperCase, i) = c)
    ELSE c

RECURSIVE ToLowerCase(_)
\* name.toLowerCase()
ToLowerCase(s) ==
    IF s = "" THEN "" ELSE ToLowerChar(Char(s, 1)) \o ToLowerCase(SubSeq(s, 2, Len(s)))

SlugChar(c) == InStr(c, LowerCase) \/ InStr(c, DigitChars) \/ IsSpace(c) \/ c = "-"

RECURSIVE DropOtherChars(_)
\* .replace(/[^a-z0-9\s-]/g, "")
DropOtherChars(s) ==
    IF s = "" THEN ""
    ELSE (IF SlugChar(Char(s, 1)) THEN Char(s, 1) ELSE "")
         \o DropOtherChars(SubSeq(s, 2, Len(s)))

RECURSIVE SpacesToHyphen(_)
\* .replace(/\s+/g, "-"): every run of whitespace becomes one hyphen
SpacesToHyphen(s) ==
    IF s = "" THEN ""
    ELSE IF IsSpace(Char(s, 1))
         THEN IF Len(s) > 1 /\ IsSpace(Char(s, 2))
              THEN SpacesToHyphen(SubSeq(s, 2, Len(s)))
              ELSE "-" \o SpacesToHyphen(SubSeq(s, 2, Len(s)))
         ELSE Char(s, 1) \o SpacesToHyphen(SubSeq(s, 2, Len(s)))

RECURSIVE CollapseHyphens(_)
\* .replace(/-+/g, "-")
CollapseHyphens(s) ==
    IF s = "" THEN ""
    ELSE IF Char(s, 1) = "-" /\ Len(s) > 1 /\ Char(s, 2) = "-"
         THEN CollapseHyphens(SubSeq(s, 2, Len(s)))
         ELSE Char(s, 1) \o CollapseHyphens(SubSeq(s, 2, Len(s)))

\* .replace(/^-|-$/g, ""): one leading and one trailing hyphen
TrimHyphens(s) ==
    LET a == IF s # "" /\ Char(s, 1) = "-" THEN SubSeq(s, 2, Len(s)) ELSE s
    IN  IF a # "" /\ Char(a, Len(a)) = "-" THEN SubSeq(a, 1, Len(a) - 1) ELSE a

\* slugify(name) for a string name
slugify(name) ==
    TrimHyphens(CollapseHyphens(SpacesToHyphen(DropOtherChars(ToLowerCase(name)))))

RECURSIVE SplitFrom(_, _)
\* the pieces of s between runs of whitespace, cur being the piece under way
SplitFrom(s, cur) ==
    IF s = "" THEN <<cur>>
    ELSE IF IsSpace(Char(s, 1))
         THEN IF Len(s) > 1 /\ IsSpace(Char(s, 2))
              THEN SplitFrom(SubSeq(s, 2, Len(s)), cur)
              ELSE <<cur>> \o SplitFrom(SubSeq(s, 2, Len(s)), "")
         ELSE SplitFrom(SubSeq(s, 2, Len(s)), cur \o Char(s, 1))

\* name.split(/\s+/)
SplitSpaces(s) == SplitFrom(s, "")

\* name.indexOf(sub), 0-based, -1 when absent
IndexOf(s, sub) ==
    IF \E i \in 1..(Len(s) - Len(sub) + 1) : SubSeq(s, i, i + Len(sub) - 1) = sub
    THEN (CHOOSE i \in 1..(Len(s) - Len(sub) + 1) :
            /\ SubSeq(s, i, i + Len(sub) - 1) = sub
            /\ \A j \in 1..(i - 1) : SubSeq(s, j, j + Len(sub) - 1) # sub) - 1
    ELSE -1

deriveFamilyName(name) ==
    LET ofIndex == IndexOf(name, " of ")
        parts == SplitSpaces(name)
    IN  IF ofIndex > 0 THEN SubSeq(name, 1, ofIndex) ELSE parts[Len(parts)]

----------------------------------------------------------------------------
(* Section parsing *)

RESERVED_KEYS == {"loci", "sections"}

\* a || b
Or(a, b) == IF Truthy(a) THEN a ELSE b

\* for (const x of v): strings and arrays are iterable, the other values are not
Iterable(v) == v.t \in {"list", "str"}

\* FirstOwnKey without the break of line 86: the last key that is not reserved
FirstOwnKeyNoBreak(item) ==
    LET ks == Keys(item)
    IN  IF \E i \in 1..Len(ks) : ks[i] \notin RESERVED_KEYS
        THEN CHOOSE i \in 1..Len(ks) :
                /\ ks[i] \notin RESERVED_KEYS
                /\ \A j \in (i + 1)..Len(ks) : ks[j] \in RESERVED_KEYS
        ELSE 0

\* position in Object.keys(item) of the first key that is not reserved, 0 if none
FirstOwnKey(item) ==
    LET ks == Keys(item)
    IN  IF \E i \in 1..Len(ks) : ks[i] \notin RESERVED_KEYS
        THEN CHOOSE i \in 1..Len(ks) :
                /\ ks[i] \notin RESERVED_KEYS
                /\ \A j \in 1..(i - 1) : ks[j] \in RESERVED_KEYS
        ELSE 0

\* lociRaw ? (Array.isArray(lociRaw) ? lociRaw.map(String) : [String(lociRaw)]) : []
LociList(lociRaw) ==
    IF Truthy(lociRaw)
    THEN IF IsArray(lociRaw)
         THEN [i \in 1..Len(lociRaw.items) |-> String(lociRaw.items[i])]
         ELSE <<String(lociRaw)>>
    ELSE <<>>

\* .filter(Boolean) over parsed sections
FilterBoolean(seq) == SelectSeq(seq, LAMBDA x : x.t # "null")

RECURSIVE parseSectionThrows(_)
\* parseSectionThrows with a section that has no identifying key rejected, not dropped
parseSectionThrowsStrict(item) ==
    \/ IsNullish(item)
    \/ FirstOwnKey(item) = 0
    \/ LET secs == Get(item, "sections")
       IN  /\ Truthy(secs)
           /\ \/ ~IsArray(secs)
              \/ \E i \in 1..Len(secs.items) : parseSectionThrows(secs.items[i])

\* parseSection(item) ends in a TypeError
parseSectionThrows(item) ==
    \/ IsNullish(item)
    \/ /\ FirstOwnKey(item) # 0
       /\ LET secs == Get(item, "sections")
          IN  /\ Truthy(secs)
              /\ \/ ~IsArray(secs)
                 \/ \E i \in 1..Len(secs.items) : parseSectionThrows(secs.items[i])

RECURSIVE parseSectionUnnamed(_)
\* parseSection without the return of line 89: an item with no key of its own
\* becomes a section with an empty id
parseSectionUnnamed(item) ==
    [t |-> "section",
     id |-> IF FirstOwnKey(item) = 0 THEN "" ELSE Keys(item)[FirstOwnKey(item)],
     title |-> IF FirstOwnKey(item) = 0 THEN "" ELSE String(Vals(item)[FirstOwnKey(item)]),
     loci |-> LociList(Get(item, "loci")),
     children |->
         IF Truthy(Get(item, "sections")) /\ IsArray(Get(item, "sections"))
         THEN [i \in 1..Len(Get(item, "sections").items) |->
                  parseSectionUnnamed(Get(item, "sections").items[i])]
         ELSE <<>>]

RECURSIVE parseSection(_)
\* parseSection(item) when it returns: null, or {id, title, loci, children}
parseSection(item) ==
    LET k == FirstOwnKey(item)
        secs == Get(item, "sections")
    IN  IF k = 0 THEN JNull
        ELSE [t |-> "section",
              id |-> Keys(item)[k],
              title |-> String(Vals(item)[k]),
              loci |-> LociList(Get(item, "loci")),
              children |->
                  IF Truthy(secs)
                  THEN FilterBoolean([i \in 1..Len(secs.items) |-> parseSection(secs.items[i])])
                  ELSE <<>>]

RECURSIVE flattenSections(_, _)
flattenSections(sections, depth) ==
    IF sections = <<>> THEN <<>>
    ELSE LET s == Head(sections)
         IN  <<[id |-> s.id, title |-> s.title, loci |-> s.loci, depth |-> depth,
                childCount |-> Len(s.children)]>>
             \o (IF Len(s.children) > 0 THEN flattenSections(s.children, depth + 1) ELSE <<>>)
             \o flattenSections(Tail(sections), depth)

RECURSIVE collectAllSectionLoci(_)
collectAllSectionLoci(sections) ==
    IF sections = <<>> THEN <<>>
    ELSE Head(sections).loci
         \o collectAllSectionLoci(Head(sections).children)
         \o collectAllSectionLoci(Tail(sections))

----------------------------------------------------------------------------
(* Section URL lookup *)

\* map[k] = v on an object: a new key goes last, an existing key keeps its place
Put(map, k, v) ==
    IF HasKey(map, k)
    THEN JMap(map.keys, [i \in 1..Len(map.keys) |-> IF map.keys[i] = k THEN v ELSE map.vals[i]])
    ELSE JMap(Append(map.keys, k), Append(map.vals, v))

RECURSIVE PutAll(_, _, _)
\* map[String(k)] = item[k] for the keys of item from position i on
PutAll(map, item, i) ==
    IF i > Len(Keys(item)) THEN map
    ELSE PutAll(Put(map, Keys(item)[i], Vals(item)[i]), item, i + 1)

RECURSIVE UrlMapFrom(_, _)
UrlMapFrom(items, map) ==
    IF items = <<>> THEN map ELSE UrlMapFrom(Tail(items), PutAll(map, Head(items), 1))

buildSectionUrlMapThrows(sectionUrls) ==
    /\ Truthy(sectionUrls)
    /\ \/ ~Iterable(sectionUrls)
       \/ \E i \in 1..Len(Vals(sectionUrls)) : IsNullish(Vals(sectionUrls)[i])

buildSectionUrlMap(sectionUrls) ==
    IF ~Truthy(sectionUrls) THEN Obj(<<>>) ELSE UrlMapFrom(Vals(sectionUrls), Obj(<<>>))

----------------------------------------------------------------------------
(* Loci processing *)

\* node.children when it is truthy, else no nodes
ChildNodes(node) ==
    IF Truthy(Get(node, "children")) THEN Get(node, "children").items ELSE <<>>

RECURSIVE collectChildSlugs(_)
\* collectDescendantSlugs without the recursive call of line 41
collectChildSlugs(nodes) ==
    IF nodes = <<>> THEN <<>>
    ELSE <<Get(Head(nodes), "slug")>> \o collectChildSlugs(Tail(nodes))

RECURSIVE collectDescendantSlugs(_)
\* the slugs collectDescendantSlugs(nodes, out) pushes on out, in push order
collectDescendantSlugs(nodes) ==
    IF nodes = <<>> THEN <<>>
    ELSE <<Get(Head(nodes), "slug")>> \o collectDescendantSlugs(ChildNodes(Head(nodes)))
             \o collectDescendantSlugs(Tail(nodes))

RECURSIVE buildLociFlat(_, _, _)
\* buildLociFlat(nodes, parentSlugs, flat): flat after the loop over nodes
buildLociFlat(nodes, parentSlugs, flat) ==
    IF nodes = <<>> THEN flat
    ELSE LET node == Head(nodes)
             entry == [t |-> "topic",
                       name |-> Get(node, "name"),
                       slug |-> Get(node, "slug"),
                       ancestors |-> parentSlugs,
                       descendants |-> collectDescendantSlugs(ChildNodes(node))]
             own == Put(flat, String(Get(node, "slug")), entry)
             below == buildLociFlat(ChildNodes(node),
                                    Append(parentSlugs, Get(node, "slug")), own)
         IN  buildLociFlat(Tail(nodes), parentSlugs, below)

----------------------------------------------------------------------------
(* Work parsing *)

WORK_META_KEYS == {"author", "category", "loci", "corporate_author", "date_added"}

\* the keys of the work that are not metadata keys: its language blocks
LangKeys(work) == SelectSeq(Keys(work), LAMBDA k : k \notin WORK_META_KEYS)

\* langData && typeof langData === "object"
IsBlock(langData) == Truthy(langData) /\ IsObject(langData)

\* { lang: langCode, ...langData } for one block marked orig_lang
OrigLang(langCode, langData) ==
    [t |-> "origLang",
     lang |-> IF HasKey(langData, "lang") THEN Get(langData, "lang") ELSE JStr(langCode),
     title |-> Get(langData, "title"),
     editions |-> Get(langData, "editions")]

\* langData && typeof langData === "object" && langData.orig_lang
IsOrigBlock(langData) == IsBlock(langData) /\ Truthy(Get(langData, "orig_lang"))

\* { lang: langCode, ...langData } for every block marked orig_lang, in key order
OrigLangsAt(work, ks) == [i \in 1..Len(ks) |-> OrigLang(ks[i], Get(work, ks[i]))]

origLangsOf(work) ==
    OrigLangsAt(work, SelectSeq(LangKeys(work), LAMBDA k : IsOrigBlock(Get(work, k))))

\* list[0] || null
FirstOrNull(list) == IF Len(list) > 0 THEN list[1] ELSE JNull

\* origLangs[0] || null
origLangOf(work) == FirstOrNull(origLangsOf(work))

\* ed.year < year (the editions of the records carry numeric years)
Less(a, b) == a.t = "num" /\ b.t = "num" /\ a.n < b.n

RECURSIVE ScanYears(_, _)
\* for (const ed of editions) if (ed.year && (year === null || ed.year < year)) year = ed.year
ScanYears(eds, year) ==
    IF eds = <<>> THEN year
    ELSE LET y == Get(Head(eds), "year")
         IN  ScanYears(Tail(eds), IF Truthy(y) /\ (year = JNull \/ Less(y, year)) THEN y ELSE year)

\* iterating editions and reading ed.year ends in a TypeError
EditionsThrow(editions) ==
    \/ ~Iterable(editions)
    \/ \E i \in 1..Len(Vals(editions)) : IsNullish(Vals(editions)[i])

\* the year after the scan of the original-language editions (lines 188-193)
OrigYear(work) ==
    LET origLang == origLangOf(work)
    IN  IF origLang # JNull /\ Truthy(origLang.editions)
        THEN ScanYears(Vals(origLang.editions), JNull)
        ELSE JNull

RECURSIVE ScanBlocks(_, _, _)
\* the fallback scan over every language block (lines 194-204)
ScanBlocks(work, ks, year) ==
    IF ks = <<>> THEN year
    ELSE LET langData == Get(work, Head(ks))
         IN  ScanBlocks(work, Tail(ks),
                 IF IsBlock(langData) /\ Truthy(Get(langData, "editions"))
                 THEN ScanYears(Vals(Get(langData, "editions")), year)
                 ELSE year)

\* YearOf without the guard of line 194: every block is always scanned
YearOfNoGuard(work) == ScanBlocks(work, LangKeys(work), OrigYear(work))

YearOf(work) ==
    IF OrigYear(work) = JNull THEN ScanBlocks(work, LangKeys(work), JNull) ELSE OrigYear(work)

YearThrows(work) ==
    LET origLang == origLangOf(work)
    IN  \/ origLang # JNull /\ Truthy(origLang.editions) /\ EditionsThrow(origLang.editions)
        \/ /\ OrigYear(work) = JNull
           /\ \E i \in 1..Len(LangKeys(work)) :
                 LET langData == Get(work, LangKeys(work)[i])
                 IN  /\ IsBlock(langData)
                     /\ Truthy(Get(langData, "editions"))
                     /\ EditionsThrow(Get(langData, "editions"))

\* one site of a translation (lines 224-241)
SiteOf(s) ==
    LET urlData == Get(s, "url")
        vol == Truthy(urlData) /\ IsObject(urlData) /\ Truthy(Get(urlData, "volumes"))
    IN  [siteName |-> Or(Get(s, "site"), JStr("Unknown")),
         url |-> IF vol THEN JNull ELSE Or(urlData, JNull),
         volumes |-> IF vol THEN Get(urlData, "volumes") ELSE JNull,
         pdf |-> Or(Get(s, "pdf"), JBool(FALSE)),
         sectionUrls |-> buildSectionUrlMap(Get(s, "section_urls")),
         sectionTexts |-> buildSectionUrlMap(Get(s, "text"))]

\* one translation (lines 223-250)
TranslationOf(tr, trMap) ==
    LET sitesRaw == Or(Get(tr, "sites"), JList(<<>>))
        translatorName == Or(Get(tr, "translator"), JStr("Unknown"))
    IN  [translator |-> translatorName,
         translatorInfo |-> Or(Get(trMap, String(translatorName)), JNull),
         year |-> Or(Get(tr, "year"), JNull),
         AI |-> Or(Get(tr, "AI"), JBool(FALSE)),
         sites |-> [i \in 1..Len(sitesRaw.items) |-> SiteOf(sitesRaw.items[i])]]

TranslationsOf(en, trMap) ==
    LET raw == Or(Get(en, "translations"), JList(<<>>))
    IN  [i \in 1..Len(raw.items) |-> TranslationOf(raw.items[i], trMap)]

SiteThrows(s) ==
    \/ IsNullish(s)
    \/ buildSectionUrlMapThrows(Get(s, "section_urls"))
    \/ buildSectionUrlMapThrows(Get(s, "text"))

TranslationThrows(tr) ==
    \/ IsNullish(tr)
    \/ LET sitesRaw == Get(tr, "sites")
       IN  /\ Truthy(sitesRaw)
           /\ \/ ~IsArray(sitesRaw)
              \/ \E i \in 1..Len(sitesRaw.items) : SiteThrows(sitesRaw.items[i])

TranslationsThrow(en) ==
    LET raw == Get(en, "translations")
    IN  /\ Truthy(raw)
        /\ \/ ~IsArray(raw)
           \/ \E i \in 1..Len(raw.items) : TranslationThrows(raw.items[i])

RECURSIVE MergeTexts(_, _, _)
\* if (!sectionTexts[k]) sectionTexts[k] = v, for the entries of one site from i on
MergeTexts(acc, texts, i) ==
    IF i > Len(texts.keys) THEN acc
    ELSE MergeTexts(IF Truthy(Get(acc, texts.keys[i])) THEN acc
                    ELSE Put(acc, texts.keys[i], texts.vals[i]), texts, i + 1)

RECURSIVE MergeSites(_, _)
MergeSites(acc, sites) ==
    IF sites = <<>> THEN acc
    ELSE MergeSites(MergeTexts(acc, Head(sites).sectionTexts, 1), Tail(sites))

RECURSIVE sectionTextsOf(_, _)
\* merged section texts from all translation sites (lines 252-260)
sectionTextsOf(translations, acc) ==
    IF translations = <<>> THEN acc
    ELSE sectionTextsOf(Tail(translations), MergeSites(acc, Head(translations).sites))

\* one original-language edition (lines 266-275)
EditionOf(ed) ==
    LET sitesRaw == Get(ed, "sites")
    IN  [year |-> Get(ed, "year"),
         place |-> Or(Get(ed, "place"), JNull),
         sites |-> IF Truthy(sitesRaw)
                   THEN [i \in 1..Len(Vals(sitesRaw)) |->
                            [siteName |-> Get(Vals(sitesRaw)[i], "site"),
                             url |-> Get(Vals(sitesRaw)[i], "url")]]
                   ELSE <<>>]

origEditionsOf(work) ==
    LET origLang == origLangOf(work)
    IN  IF origLang # JNull /\ Truthy(origLang.editions)
        THEN [i \in 1..Len(Vals(origLang.editions)) |-> EditionOf(Vals(origLang.editions)[i])]
        ELSE <<>>

origEditionsThrow(work) ==
    LET origLang == origLangOf(work)
    IN  /\ origLang # JNull
        /\ Truthy(origLang.editions)
        /\ \E i \in 1..Len(Vals(origLang.editions)) :
              LET sitesRaw == Get(Vals(origLang.editions)[i], "sites")
              IN  /\ Truthy(sitesRaw)
                  /\ \/ ~Iterable(sitesRaw)
                     \/ \E j \in 1..Len(Vals(sitesRaw)) : IsNullish(Vals(sitesRaw)[j])

\* if (ed.oclc && !oclc) oclc = String(ed.oclc)
oclcOf(work) ==
    LET origLang == origLangOf(work)
        eds == IF origLang # JNull /\ Truthy(origLang.editions)
               THEN Vals(origLang.editions) ELSE <<>>
        has == {i \in 1..Len(eds) : Truthy(Get(eds[i], "oclc"))}
    IN  IF has = {} THEN JNull
        ELSE JStr(String(Get(eds[CHOOSE i \in has : \A j \in has : i <= j], "oclc")))

\* first original edition site URL (lines 300-307)
origUrlOf(origEditions) ==
    LET urls == [i \in 1..Len(origEditions) |->
                    SelectSeq(origEditions[i].sites, LAMBDA x : Truthy(x.url))]
        has == {i \in 1..Len(urls) : urls[i] # <<>>}
    IN  IF has = {} THEN JNull
        ELSE urls[CHOOSE i \in has : \A j \in has : i <= j][1].url

\* authorsOf without the Array.isArray test: the field is always wrapped
authorsOfWrapped(work) == <<Get(work, "author")>>

\* Array.isArray(work.author) ? work.author : [work.author]
authorsOf(work) ==
    IF IsArray(Get(work, "author")) THEN Get(work, "author").items ELSE <<Get(work, "author")>>

\* slugify(x) calls x.toLowerCase(): a TypeError unless x is a string
slugifyThrows(x) == x.t # "str"

corporateAuthorThrows(work) ==
    LET ca == Get(work, "corporate_author")
    IN  /\ Truthy(ca)
        /\ ca.t # "str"
        /\ IsObject(ca)
        /\ ~Truthy(Get(ca, "qid"))
        /\ slugifyThrows(Get(ca, "label"))

\* lines 281-298
corporateAuthorOf(work) ==
    LET ca == Get(work, "corporate_author")
    IN  IF ~Truthy(ca) THEN JNull
        ELSE IF ca.t = "str"
        THEN [t |-> "corp", label |-> ca, slug |-> JStr(slugify(ca.s)), qid |-> JNull]
        ELSE IF IsObject(ca)
        THEN [t |-> "corp",
              label |-> Get(ca, "label"),
              slug |-> IF Truthy(Get(ca, "qid")) THEN JNull
                       ELSE JStr(slugify(Get(ca, "label").s)),
              qid |-> Or(Get(ca, "qid"), JNull)]
        ELSE JNull

\* the order a stable sort puts n elements into for a comparator that orders
\* them consistently, after[i][j] being cmp(element i, element j) > 0: element j
\* comes before element i when the comparator puts i after j, or puts neither
\* after the other and j stands before i
StableOrder(n, after) ==
    LET rank == SubSeq([i \in 1..n |->
                    1 + Cardinality({j \in 1..n :
                            j # i /\ (after[i][j] \/ (~after[j][i] /\ j < i))})], 1, n)
    IN  [k \in 1..n |-> CHOOSE i \in 1..n : rank[i] = k]

\* [...new Set(list)]: the first occurrence of each element, in order
Dedup(list) ==
    LET firsts == SelectSeq([i \in 1..Len(list) |-> i],
                            LAMBDA i : \A j \in 1..(i - 1) : list[j] # list[i])
    IN  [k \in 1..Len(firsts) |-> list[firsts[k]]]

\* work.date_added, as a date string or null (lines 315-319)
dateAddedOf(work) ==
    LET d == Get(work, "date_added")
    IN  IF Truthy(d) THEN (IF d.t = "date" THEN JStr(d.iso) ELSE JStr(String(d))) ELSE JNull

\* en.sections || []
rawSectionsOf(en) == Or(Get(en, "sections"), JList(<<>>))

sectionsThrow(en) ==
    \/ ~IsArray(rawSectionsOf(en))
    \/ \E i \in 1..Len(rawSectionsOf(en).items) : parseSectionThrows(rawSectionsOf(en).items[i])

sectionsOf(en) ==
    FilterBoolean([i \in 1..Len(rawSectionsOf(en).items) |->
                      parseSection(rawSectionsOf(en).items[i])])

\* allLociOf without the Set of line 321
allLociOfNoSet(workLoci, sections) == workLoci \o collectAllSectionLoci(sections)

\* [...workLoci, ...collectAllSectionLoci(sections)] without its duplicates (line 321)
allLociOf(workLoci, sections) == Dedup(workLoci \o collectAllSectionLoci(sections))

\* titleOf with the original title tried before the English one
titleOfOrigFirst(en, origLang, id) ==
    Or(Or(IF origLang = JNull THEN JUndef ELSE origLang.title, Get(en, "title")), id)

\* en.title || origLang?.title || fileId
titleOf(en, origLang, id) ==
    Or(Or(Get(en, "title"), IF origLang = JNull THEN JUndef ELSE origLang.title), id)

\* parseWork ends in a TypeError (work being truthy)
parseWorkThrows(work) ==
    LET en == Or(Get(work, "en"), Obj(<<>>))
    IN  \/ YearThrows(work)
        \/ sectionsThrow(en)
        \/ TranslationsThrow(en)
        \/ origEditionsThrow(work)
        \/ corporateAuthorThrows(work)

\* parseWork(fileId, data, trMap): null, a Work, or a raise
parseWork(id, record, trMap) ==
    LET work == Get(record, String(id))
        en == Or(Get(work, "en"), Obj(<<>>))
        origLang == origLangOf(work)
        sections == sectionsOf(en)
        workLoci == LociList(Get(work, "loci"))
        translations == TranslationsOf(en, trMap)
        origEditions == origEditionsOf(work)
        authorList == authorsOf(work)
    IN  IF ~Truthy(work) THEN JNull
        ELSE IF parseWorkThrows(work) THEN Raise
        ELSE [t |-> "work",
              id |-> id,
              author |-> IF Len(authorList) > 0 THEN authorList[1] ELSE JUndef,
              authors |-> authorList,
              corporateAuthor |-> corporateAuthorOf(work),
              category |-> Or(Get(work, "category"), JNull),
              dateAdded |-> dateAddedOf(work),
              workLoci |-> workLoci,
              allLoci |-> allLociOf(workLoci, sections),
              year |-> YearOf(work),
              origTitle |-> IF origLang = JNull THEN JNull ELSE origLang.title,
              origLang |-> IF origLang = JNull THEN JNull ELSE origLang.lang,
              origUrl |-> origUrlOf(origEditions),
              oclc |-> oclcOf(work),
              origEditions |-> origEditions,
              title |-> titleOf(en, origLang, id),
              sections |-> sections,
              flatSections |-> flattenSections(sections, 0),
              translations |-> translations,
              sectionTexts |-> sectionTextsOf(translations, Obj(<<>>)),
              yamlFilename |-> String(id) \o ".yaml"]

----------------------------------------------------------------------------
(* Corpus loading *)

\* Object.keys(data)[0]
FirstKey(d) == IF Len(Keys(d)) > 0 THEN JStr(Keys(d)[1]) ELSE JUndef

\* the characters of file names and dates, in UTF-16 code unit order
CodeUnits == " -.0123456789ABCDEFGHIJKLMNOPQRSTUVWXYZ_abcdefghijklmnopqrstuvwxyz"

CodeOf(c) == CHOOSE i \in 1..Len(CodeUnits) : Char(CodeUnits, i) = c

RECURSIVE StrLess(_, _)
\* a < b on strings: code unit by code unit, a proper prefix first
StrLess(a, b) ==
    IF b = "" THEN FALSE
    ELSE IF a = "" THEN TRUE
    ELSE IF Char(a, 1) = Char(b, 1)
         THEN StrLess(SubSeq(a, 2, Len(a)), SubSeq(b, 2, Len(b)))
         ELSE CodeOf(Char(a, 1)) < CodeOf(Char(b, 1))

\* file.endsWith(suffix)
EndsWith(s, suffix) ==
    Len(s) >= Len(suffix) /\ SubSeq(s, Len(s) - Len(suffix) + 1, Len(s)) = suffix

\* fs.readdirSync(WORKS_DIR).sort(): the directory entries by name, in code unit order
SortFiles(fileList) ==
    LET order == StableOrder(Len(fileList),
                     [i \in 1..Len(fileList) |-> [j \in 1..Len(fileList) |->
                         StrLess(fileList[j].name, fileList[i].name)]])
    IN  [k \in 1..Len(fileList) |-> fileList[order[k]]]

\* what yaml.load leaves when the file is not well-formed YAML: it throws
YamlError == [t |-> "yamlerror"]

\* the body of the try block for one file (lines 342-345): a Work, null, or a raise
LoadFile(file, trMap) ==
    IF file.data = YamlError THEN Raise
    ELSE IF IsNullish(file.data) THEN Raise
    ELSE parseWork(FirstKey(file.data), file.data, trMap)

\* err.message, by the kind of the exception
MessageOf(file) == IF file.data = YamlError THEN "YAMLException" ELSE "TypeError"

\* works.push(work) unless the file raised, and then the rest of the loop
PushUnlessRaised(w, rest) ==
    IF w = Raise THEN <<>>
    ELSE (IF w.t = "work" THEN <<w>> ELSE <<>>) \o rest

RECURSIVE LoadUntilError(_, _)
\* LoadFrom with the try block around the loop: the first failure ends the loading
LoadUntilError(sorted, trMap) ==
    IF sorted = <<>> THEN <<>>
    ELSE IF ~EndsWith(Head(sorted).name, ".yaml") THEN LoadUntilError(Tail(sorted), trMap)
    ELSE PushUnlessRaised(LoadFile(Head(sorted), trMap), LoadUntilError(Tail(sorted), trMap))

\* if (!file.endsWith(".yaml")) continue (line 340)
OnlyYaml(sorted) == SelectSeq(sorted, LAMBDA file : EndsWith(file.name, ".yaml"))

\* the try block run on every file (lines 341-349)
LoadEach(yamls, trMap) == [i \in 1..Len(yamls) |-> LoadFile(yamls[i], trMap)]

\* if (work) works.push(work) (line 346): a file that raised pushes nothing
LoadedWorks(loaded) == SelectSeq(loaded, LAMBDA w : w.t = "work")

\* the loop of lines 339-350 over the sorted entries: the Works pushed
LoadFrom(sorted, trMap) == LoadedWorks(LoadEach(OnlyYaml(sorted), trMap))

\* the files whose try block ended in the catch clause (line 347)
FailedFiles(sorted, trMap) ==
    SelectSeq(sorted, LAMBDA file : /\ EndsWith(file.name, ".yaml")
                                    /\ LoadFile(file, trMap) = Raise)

ErrorLines(failed) ==
    [i \in 1..Len(failed) |-> [file |-> failed[i].name, message |-> MessageOf(failed[i])]]

\* the same loop: the lines written by console.error (line 348)
ErrorsFrom(sorted, trMap) == ErrorLines(FailedFiles(sorted, trMap))

\* loadAllWorks(translatorsMap): the Works returned; fileList is the works
\* directory in the order readdirSync lists it
loadAllWorks(fileList, trMap) == LoadFrom(SortFiles(fileList), trMap)

\* what loadAllWorks reported on the console
loadAllWorksErrors(fileList, trMap) == ErrorsFrom(SortFiles(fileList), trMap)

----------------------------------------------------------------------------
(* Author pages *)

SORT_LAST == 9999

\* getAuthorMeta with a stub that takes the slug as the name
getAuthorMetaSlugNamed(qid, cache) ==
    IF Truthy(Get(cache, String(qid))) THEN Get(cache, String(qid))
    ELSE Obj(<< <<"qid", qid>>, <<"name", JStr(slugify(qid.s))>>,
                <<"slug", JStr(slugify(qid.s))>>,
                <<"birthYear", JNull>>, <<"deathYear", JNull>>, <<"imageUrl", JNull>>,
                <<"wikipediaUrl", JNull>>, <<"prdlId", JNull>>, <<"labels", Obj(<<>>)>> >>)

\* authors[qid] || { qid, name: qid, slug: slugify(qid), birthYear: null, ... }
getAuthorMeta(qid, cache) ==
    IF Truthy(Get(cache, String(qid))) THEN Get(cache, String(qid))
    ELSE Obj(<< <<"qid", qid>>, <<"name", qid>>, <<"slug", JStr(slugify(qid.s))>>,
                <<"birthYear", JNull>>, <<"deathYear", JNull>>, <<"imageUrl", JNull>>,
                <<"wikipediaUrl", JNull>>, <<"prdlId", JNull>>, <<"labels", Obj(<<>>)>> >>)

getAuthorMetaThrows(qid, cache) ==
    ~Truthy(Get(cache, String(qid))) /\ slugifyThrows(qid)

\* ResolveSlug without lines 376-379: the slug is left as parsed
ResolveSlugSkipped(w, cache) == w

\* lines 376-379: a corporate author given by QID gets its slug from the cache
ResolveSlug(w, cache) ==
    LET ca == w.corporateAuthor
    IN  IF ca # JNull /\ Truthy(ca.qid) /\ ~Truthy(ca.slug)
        THEN [w EXCEPT !.corporateAuthor.slug =
                 IF Truthy(Get(cache, String(ca.qid)))
                 THEN Get(Get(cache, String(ca.qid)), "slug")
                 ELSE JStr(slugify(ca.label.s))]
        ELSE w

ResolveSlugThrows(w, cache) ==
    LET ca == w.corporateAuthor
    IN  /\ ca # JNull /\ Truthy(ca.qid) /\ ~Truthy(ca.slug)
        /\ ~Truthy(Get(cache, String(ca.qid)))
        /\ slugifyThrows(ca.label)

\* { qid: q, name: m.name, slug: m.slug }
MemberOf(q, cache) ==
    [qid |-> q, name |-> Get(getAuthorMeta(q, cache), "name"),
     slug |-> Get(getAuthorMeta(q, cache), "slug")]

\* coMembersOf without the filter of line 411: the author is listed with the others
coMembersOfUnfiltered(w, qid, cache) ==
    [i \in 1..Len(w.authors) |-> MemberOf(w.authors[i], cache)]

\* w.authors.filter((q) => q !== qid).map(...)
coMembersOf(w, qid, cache) ==
    LET others == SelectSeq(w.authors, LAMBDA q : q # qid)
    IN  [i \in 1..Len(others) |-> MemberOf(others[i], cache)]

\* the copy of w pushed on the list of its author qid (lines 407-417)
WorkCopy(w, qid, cache) ==
    IF w.corporateAuthor # JNull
    THEN w @@ [coMembers |-> coMembersOf(w, qid, cache)]
    ELSE w

RECURSIVE Flatten(_)
\* the sequences of seqs one after the other
Flatten(seqs) ==
    IF seqs = <<>> THEN <<>>
    ELSE IF Len(seqs) = 1 THEN seqs[1]
    ELSE Flatten(SubSeq(seqs, 1, Len(seqs) \div 2))
             \o Flatten(SubSeq(seqs, (Len(seqs) \div 2) + 1, Len(seqs)))

\* (a.year || 9999), (a.birthYear || 9999)
SortKey(j) == IF Truthy(j) THEN j.n ELSE SORT_LAST

\* the <<key, position>> pairs by key, pairs of one key in their order
SortPairs(pairs) ==
    LET order == StableOrder(Len(pairs),
                     [i \in 1..Len(pairs) |-> [j \in 1..Len(pairs) |->
                         pairs[i][1] > pairs[j][1]]])
    IN  [k \in 1..Len(pairs) |-> pairs[order[k]]]

\* Array.prototype.sort with the comparator keys[a] - keys[b]: stable
SortBy(list, keys) ==
    LET order == SortPairs([i \in 1..Len(list) |-> <<keys[i], i>>])
    IN  [i \in 1..Len(list) |-> list[order[i][2]]]

\* the sort keys (x.year || 9999) of a list of works
YearKeys(list) == [i \in 1..Len(list) |-> SortKey(list[i].year)]

\* sort keys that put a page without birth year first
BirthKeysNullFirst(list) ==
    [i \in 1..Len(list) |-> IF Truthy(list[i].birthYear) THEN list[i].birthYear.n ELSE 0]

\* the sort keys (x.birthYear || 9999) of a list of pages
BirthKeys(list) == [i \in 1..Len(list) |-> SortKey(list[i].birthYear)]

\* the keys of byAuthor, in insertion order
ByAuthorKeys(ws) ==
    Dedup(Flatten([i \in 1..Len(ws) |->
                      [j \in 1..Len(ws[i].authors) |-> String(ws[i].authors[j])]]))

\* byAuthor[key]: the copies pushed for key, in push order
ByAuthor(key, ws, cache) ==
    Flatten([i \in 1..Len(ws) |->
                LET mine == SelectSeq(ws[i].authors, LAMBDA q : String(q) = key)
                IN  [j \in 1..Len(mine) |-> WorkCopy(ws[i], mine[j], cache)]])

\* [...new Set(authorWorks.map((w) => w.origLang).filter(Boolean))] (lines 428-432)
OrigLangCodes(authorWorks) ==
    Dedup(SelectSeq([i \in 1..Len(authorWorks) |-> authorWorks[i].origLang],
                    LAMBDA lang : Truthy(lang)))

\* the loop of lines 435-441: a label for every code but "en" that has one
AuthorLabels(codes, labels) ==
    LET kept == SelectSeq(codes, LAMBDA lang : lang # JStr("en")
                                               /\ Truthy(Get(labels, String(lang))))
    IN  [i \in 1..Len(kept) |-> [lang |-> kept[i], label |-> Get(labels, String(kept[i]))]]

\* lines 444-446: the label of the first code, or the name
OrigLangName(codes, labels, name) ==
    IF Len(codes) > 0 /\ Truthy(Get(labels, String(codes[1])))
    THEN Get(labels, String(codes[1]))
    ELSE name

\* the page returned for one author (lines 448-466), authorWorks being sorted
PageOf(key, meta, authorWorks, traditions) ==
    [qid |-> JStr(key),
     name |-> Get(meta, "name"),
     slug |-> Get(meta, "slug"),
     birthYear |-> Get(meta, "birthYear"),
     deathYear |-> Get(meta, "deathYear"),
     imageUrl |-> Get(meta, "imageUrl"),
     origLangName |-> OrigLangName(OrigLangCodes(authorWorks),
                                   Or(Get(meta, "labels"), Obj(<<>>)), Get(meta, "name")),
     authorLabels |-> AuthorLabels(OrigLangCodes(authorWorks),
                                   Or(Get(meta, "labels"), Obj(<<>>))),
     tradition |-> Or(Get(traditions, key), JNull),
     isCorporate |-> FALSE,
     members |-> <<>>,
     works |-> authorWorks]

\* authorWorks.sort((a, b) => (a.year || 9999) - (b.year || 9999)) (line 425)
SortByYear(authorWorks) == SortBy(authorWorks, YearKeys(authorWorks))

\* one individual author page (lines 423-467)
AuthorPage(key, ws, cache, traditions) ==
    PageOf(key, getAuthorMeta(JStr(key), cache), SortByYear(ByAuthor(key, ws, cache)),
           traditions)

\* the keys of corporateAuthors (the slugs), in insertion order
CorporateKeys(ws) ==
    Dedup([i \in 1..Len(SelectSeq(ws, LAMBDA w : w.corporateAuthor # JNull)) |->
              String(SelectSeq(ws, LAMBDA w : w.corporateAuthor # JNull)[i].corporateAuthor.slug)])

\* one corporate author page (lines 381-400 and 470-499)
CorporatePage(key, ws, cache, traditions) ==
    LET mine == SelectSeq(ws, LAMBDA w : w.corporateAuthor # JNull
                                         /\ String(w.corporateAuthor.slug) = key)
        first == mine[1].corporateAuthor
        caMeta == IF Truthy(first.qid) THEN Get(cache, String(first.qid)) ELSE JNull
        memberQids == Dedup(Flatten([i \in 1..Len(mine) |-> mine[i].authors]))
    IN  [qid |-> Or(first.qid, first.slug),
         name |-> first.label,
         slug |-> first.slug,
         birthYear |-> Or(Get(caMeta, "birthYear"), JNull),
         deathYear |-> Or(Get(caMeta, "deathYear"), JNull),
         imageUrl |-> Or(Get(caMeta, "imageUrl"), JNull),
         tradition |-> IF Truthy(first.qid) THEN Or(Get(traditions, String(first.qid)), JNull)
                       ELSE JNull,
         origLangName |-> first.label,
         authorLabels |-> <<>>,
         isCorporate |-> TRUE,
         members |-> [i \in 1..Len(memberQids) |-> MemberOf(memberQids[i], cache)],
         works |-> SortBy(mine, YearKeys(mine))]

\* the works after the loop of lines 374-419 (their corporate slugs resolved)
ResolvedWorks(ws, cache) == [i \in 1..Len(ws) |-> ResolveSlug(ws[i], cache)]

\* buildAuthorPages(works, authors, traditionAuthors) when it returns
buildAuthorPages(ws, cache, traditions) ==
    LET rs == ResolvedWorks(ws, cache)
        individual == [i \in 1..Len(ByAuthorKeys(rs)) |->
                          AuthorPage(ByAuthorKeys(rs)[i], rs, cache, traditions)]
        corporate == [i \in 1..Len(CorporateKeys(rs)) |->
                         CorporatePage(CorporateKeys(rs)[i], rs, cache, traditions)]
    IN  SortBy(individual \o corporate, BirthKeys(individual \o corporate))

\* buildAuthorPages ends in a TypeError
buildAuthorPagesThrows(ws, cache) ==
    \E i \in 1..Len(ws) :
        \/ ResolveSlugThrows(ws[i], cache)
        \/ /\ ws[i].corporateAuthor # JNull
           /\ \E j \in 1..Len(ws[i].authors) : getAuthorMetaThrows(ws[i].authors[j], cache)

----------------------------------------------------------------------------
(* Loci index *)

\* authorMetaOf with the corporate branch of lines 512-524 left out
authorMetaOfIndividual(work, cache, shortNames) ==
    Or(Get(cache, String(work.author)),
       Obj(<< <<"name", work.author>>, <<"slug", JStr(slugify(work.author.s))>>,
              <<"qid", work.author>> >>))

\* the author a work is indexed under (lines 511-527)
authorMetaOf(work, cache, shortNames) ==
    IF work.corporateAuthor # JNull
    THEN LET ca == work.corporateAuthor
             caMeta == IF Truthy(ca.qid) THEN Get(cache, String(ca.qid)) ELSE JNull
             parts == SplitSpaces(ca.label.s)
         IN  Obj(<< <<"name", ca.label>>, <<"slug", ca.slug>>, <<"qid", Or(ca.qid, ca.slug)>>,
                    <<"familyName", JStr(parts[Len(parts)])>>,
                    <<"givenName", JStr(parts[1])>>,
                    <<"birthYear", Or(Get(caMeta, "birthYear"), JNull)>>,
                    <<"shortName", Or(Get(shortNames, String(ca.label)), JNull)>> >>)
    ELSE Or(Get(cache, String(work.author)),
            Obj(<< <<"name", work.author>>, <<"slug", JStr(slugify(work.author.s))>>,
                   <<"qid", work.author>> >>))

authorMetaThrows(work, cache) ==
    IF work.corporateAuthor # JNull
    THEN work.corporateAuthor.label.t # "str"
    ELSE ~Truthy(Get(cache, String(work.author))) /\ slugifyThrows(work.author)

\* lines 552-574
addToLociIndex(index, slug, authorMeta, work, section) ==
    LET topic == IF HasKey(index, slug) THEN Get(index, slug) ELSE Obj(<<>>)
        authorKey == String(Get(authorMeta, "qid"))
        nameParts == SplitSpaces(Get(authorMeta, "name").s)
        fresh == [t |-> "author",
                  name |-> Get(authorMeta, "name"),
                  slug |-> Get(authorMeta, "slug"),
                  qid |-> Get(authorMeta, "qid"),
                  familyName |-> Or(Get(authorMeta, "familyName"),
                                    JStr(deriveFamilyName(Get(authorMeta, "name").s))),
                  givenName |-> Or(Get(authorMeta, "givenName"), JStr(nameParts[1])),
                  birthYear |-> Or(Get(authorMeta, "birthYear"), JNull),
                  shortName |-> Or(Get(authorMeta, "shortName"), JNull),
                  entries |-> <<>>]
        current == IF HasKey(topic, authorKey) THEN Get(topic, authorKey) ELSE fresh
        entry == [workId |-> work.id,
                  workTitle |-> work.title,
                  sectionId |-> IF section = JNull THEN JNull ELSE JStr(section.id),
                  sectionTitle |-> IF section = JNull THEN JNull ELSE JStr(section.title)]
    IN  Put(index, slug,
            Put(topic, authorKey, [current EXCEPT !.entries = Append(@, entry)]))

RECURSIVE AddLoci(_, _, _, _, _)
\* for (const slug of loci) addToLociIndex(index, slug, authorMeta, work, section)
AddLoci(index, loci, authorMeta, work, section) ==
    IF loci = <<>> THEN index
    ELSE AddLoci(addToLociIndex(index, Head(loci), authorMeta, work, section),
                 Tail(loci), authorMeta, work, section)

RECURSIVE indexSectionsLociShallow(_, _, _, _)
\* indexSectionsLoci without the recursive call of line 547: sub-sections are not visited
indexSectionsLociShallow(sections, index, authorMeta, work) ==
    IF sections = <<>> THEN index
    ELSE indexSectionsLociShallow(Tail(sections),
             AddLoci(index, Head(sections).loci, authorMeta, work, Head(sections)),
             authorMeta, work)

RECURSIVE indexSectionsLoci(_, _, _, _)
\* lines 541-550
indexSectionsLoci(sections, index, authorMeta, work) ==
    IF sections = <<>> THEN index
    ELSE LET section == Head(sections)
             own == AddLoci(index, section.loci, authorMeta, work, section)
             below == indexSectionsLoci(section.children, own, authorMeta, work)
         IN  indexSectionsLoci(Tail(sections), below, authorMeta, work)

RECURSIVE IndexWorks(_, _, _, _)
\* the loop of lines 510-536 over the works, index being the index so far
IndexWorks(index, ws, cache, shortNames) ==
    IF ws = <<>> THEN index
    ELSE LET work == Head(ws)
             authorMeta == authorMetaOf(work, cache, shortNames)
             own == AddLoci(index, work.workLoci, authorMeta, work, JNull)
         IN  IndexWorks(indexSectionsLoci(work.sections, own, authorMeta, work),
                        Tail(ws), cache, shortNames)

\* NewIndex with the index kept from one build to the next
NewIndexKept == lociIndex

\* const index = {} (line 508)
NewIndex == Obj(<<>>)

\* buildLociIndex(lociFlat, works, authors, corporateShortNames); lociFlat is not read
buildLociIndex(flat, ws, cache, shortNames) == IndexWorks(NewIndex, ws, cache, shortNames)

buildLociIndexThrows(ws, cache) == \E i \in 1..Len(ws) : authorMetaThrows(ws[i], cache)

\* a.givenName ? a.givenName[0] : ""
FirstLetter(a) == IF Truthy(a.givenName) THEN Char(a.givenName.s, 1) ELSE ""

\* PeersOf without the test of line 583: overrides are grouped with the others
PeersOfAll(a, topicAuthors) ==
    SelectSeq(topicAuthors, LAMBDA x : String(x.familyName) = String(a.familyName))

\* byFamily[a.familyName]: the authors of the topic without override that share
\* a's family name (lines 581-587)
PeersOf(a, topicAuthors) ==
    SelectSeq(topicAuthors, LAMBDA x :
        ~Truthy(x.shortName) /\ String(x.familyName) = String(a.familyName))

\* the display name of author a among the authors of its topic (lines 589-615)
DisplayNameOf(a, topicAuthors) ==
    LET fam == String(a.familyName)
        peers == PeersOf(a, topicAuthors)
        initial == IF Truthy(a.givenName) THEN Char(a.givenName.s, 1) \o "." ELSE ""
        sameInitial == SelectSeq(peers, LAMBDA x :
                           Truthy(x.givenName) /\ Char(x.givenName.s, 1) = FirstLetter(a))
    IN  IF Truthy(a.shortName) THEN a.shortName
        ELSE IF Len(peers) = 1 THEN JStr(fam)
        ELSE IF Len(sameInitial) > 1
        THEN JStr(initial \o " " \o fam
                  \o (IF Truthy(a.birthYear) THEN " (b. " \o String(a.birthYear) \o ")" ELSE ""))
        ELSE JStr(initial \o " " \o fam)

\* computeDisplayNames(index): every author entry gets its displayName
computeDisplayNames(index) ==
    JMap(index.keys,
         [i \in 1..Len(index.keys) |->
             JMap(index.vals[i].keys,
                  [j \in 1..Len(index.vals[i].keys) |->
                      [displayName |-> DisplayNameOf(index.vals[i].vals[j], index.vals[i].vals)]
                          @@ index.vals[i].vals[j]])])

\* lociIndex[slug][authorKey].tradition = traditionAuthors[authorKey] || null (lines 721-726)
annotateTradition(index, traditions) ==
    JMap(index.keys,
         [i \in 1..Len(index.keys) |->
             JMap(index.vals[i].keys,
                  [j \in 1..Len(index.vals[i].keys) |->
                      [tradition |-> Or(Get(traditions, index.vals[i].keys[j]), JNull)]
                          @@ index.vals[i].vals[j]])])

----------------------------------------------------------------------------
(* Sorting with a comparator *)

\* the characters of names and titles in the order localeCompare puts them, letter
\* case apart: white space, punctuation, digits, letters
Collation == " -.0123456789abcdefghijklmnopqrstuvwxyz"

PrimaryOf(c) ==
    LET lower == ToLowerChar(c)
    IN  CHOOSE i \in 1..Len(Collation) : Char(Collation, i) = lower

\* the comparison of two strings letter by letter, case ignored: decided at
\* the first position where the letters differ, a proper prefix first
PrimaryCompare(a, b) ==
    LET n == IF Len(a) < Len(b) THEN Len(a) ELSE Len(b)
        diff == {i \in 1..n : ToLowerChar(Char(a, i)) # ToLowerChar(Char(b, i))}
    IN  IF diff = {}
        THEN (IF Len(a) < Len(b) THEN -1 ELSE IF Len(a) > Len(b) THEN 1 ELSE 0)
        ELSE LET d == CHOOSE i \in diff : \A k \in diff : i <= k
             IN  IF PrimaryOf(Char(a, d)) < PrimaryOf(Char(b, d)) THEN -1 ELSE 1

\* for two strings equal up to case: the lower-case letter first at the first difference
CaseCompare(a, b) ==
    LET diff == {i \in 1..Len(a) : Char(a, i) # Char(b, i)}
    IN  IF diff = {} THEN 0
        ELSE LET d == CHOOSE i \in diff : \A k \in diff : i <= k
             IN  IF InStr(Char(a, d), LowerCase) THEN -1 ELSE 1

\* a.localeCompare(b): negative, zero or positive
localeCompare(a, b) ==
    LET primary == PrimaryCompare(a, b)
    IN  IF primary # 0 THEN primary ELSE CaseCompare(a, b)

\* list.sort(cmp), after[i][j] being cmp(list[i], list[j]) > 0: stable
SortWith(list, after) ==
    LET order == StableOrder(Len(list), after)
    IN  [k \in 1..Len(list) |-> list[order[k]]]

----------------------------------------------------------------------------
(* Works index, translator index, recency feed *)

\* a.works[0]?.year || 9999
FirstYearKeys(pages) ==
    [i \in 1..Len(pages) |->
        IF pages[i].works = <<>> THEN SORT_LAST ELSE SortKey(pages[i].works[1].year)]

\* worksIndex: the author pages by the year of their first work (lines 729-733)
worksIndexOf(pages) == SortBy(pages, FirstYearKeys(pages))

\* ap.qid && String(ap.qid).startsWith("Q")
IsQid(j) == Truthy(j) /\ Len(String(j)) > 0 /\ Char(String(j), 1) = "Q"

\* authorByQid[key]: the last page whose qid is key and starts with Q (undefined
\* when there is none)
AuthorByQid(pages, key) ==
    LET hits == SelectSeq(pages, LAMBDA ap : IsQid(ap.qid) /\ String(ap.qid) = key)
    IN  IF hits = <<>> THEN JUndef ELSE hits[Len(hits)]

\* authorName and authorSlug of a work (lines 654-662 and 751-759)
AuthorNameOf(work, pages) ==
    IF work.corporateAuthor # JNull THEN work.corporateAuthor.label
    ELSE IF AuthorByQid(pages, String(work.author)) # JUndef
         THEN AuthorByQid(pages, String(work.author)).name
         ELSE work.author

AuthorSlugOf(work, pages) ==
    IF work.corporateAuthor # JNull THEN work.corporateAuthor.slug
    ELSE IF AuthorByQid(pages, String(work.author)) # JUndef
         THEN AuthorByQid(pages, String(work.author)).slug
         ELSE JStr(slugify(work.author.s))

AuthorSlugThrows(work, pages) ==
    /\ work.corporateAuthor = JNull
    /\ AuthorByQid(pages, String(work.author)) = JUndef
    /\ slugifyThrows(work.author)

\* the (work, translation, site) triples in the order the loops of lines 652-689
\* visit them, each with its translatorKey (line 666) and siteKey (line 670)
Triples(ws, pages) ==
    Flatten([i \in 1..Len(ws) |->
        Flatten([j \in 1..Len(ws[i].translations) |->
            [k \in 1..Len(ws[i].translations[j].sites) |->
                [work |-> ws[i], tr |-> ws[i].translations[j],
                 site |-> ws[i].translations[j].sites[k],
                 translatorKey |-> ToLowerCase(ws[i].translations[j].translator.s),
                 siteKey |-> ToLowerCase(ws[i].translations[j].sites[k].siteName.s)]]])])

\* the row pushed for a triple (lines 677-686)
WorkRow(x, pages) ==
    [title |-> x.work.title,
     workId |-> x.work.id,
     authorName |-> AuthorNameOf(x.work, pages),
     authorSlug |-> AuthorSlugOf(x.work, pages),
     year |-> x.tr.year,
     AI |-> x.tr.AI,
     url |-> x.site.url,
     volumes |-> x.site.volumes]

SiteKey(x) == x.siteKey

TranslatorKey(x) == x.translatorKey

\* sortWorksByAuthor: is row a put after row b
RowAfter(a, b) ==
    IF a.authorName # b.authorName
    THEN localeCompare(a.authorName.s, b.authorName.s) > 0
    ELSE localeCompare(a.title.s, b.title.s) > 0

\* the last of the words of a name
LastWord(name) == SplitSpaces(name)[Len(SplitSpaces(name))]

\* sortTranslatorsByLastName with the last names left out: by full name
TranslatorAfterByName(a, b) == localeCompare(a.name.s, b.name.s) > 0

\* sortTranslatorsByLastName: is translator a put after translator b
TranslatorAfter(a, b) ==
    IF LastWord(a.name.s) # LastWord(b.name.s)
    THEN localeCompare(LastWord(a.name.s), LastWord(b.name.s)) > 0
    ELSE localeCompare(a.name.s, b.name.s) > 0

\* sortWorksByAuthor(rows) (lines 633-638)
SortRows(rows) ==
    SortWith(rows, [i \in 1..Len(rows) |->
                       [j \in 1..Len(rows) |-> RowAfter(rows[i], rows[j])]])

\* the rows pushed for the triples of one translator on one site
RowsOf(mine, pages) ==
    SubSeq([i \in 1..Len(mine) |-> WorkRow(mine[i], pages)], 1, Len(mine))

\* the entry created by the first of the triples (lines 671-676), its works sorted
TranslatorOf(mine, pages) ==
    [name |-> mine[1].tr.translator,
     slug |-> JStr(slugify(mine[1].tr.translator.s)),
     translatorInfo |-> Or(mine[1].tr.translatorInfo, JNull),
     works |-> SortRows(RowsOf(mine, pages))]

\* bySite[siteKey].translators[translatorKey] after the loops, its works sorted
TranslatorEntry(siteKey, translatorKey, triples, pages) ==
    TranslatorOf(SelectSeq(triples, LAMBDA x : SiteKey(x) = siteKey
                                               /\ TranslatorKey(x) = translatorKey),
                 pages)

\* sortTranslatorsByLastName(list) (lines 622-631)
SortTranslators(list) ==
    SortWith(list, [i \in 1..Len(list) |->
                       [j \in 1..Len(list) |-> TranslatorAfter(list[i], list[j])]])

\* the translator keys of one site in the order they were first seen
TranslatorKeys(mine) == Dedup([i \in 1..Len(mine) |-> TranslatorKey(mine[i])])

\* Object.values(site.translators) (line 695)
TranslatorsOf(siteKey, keys, triples, pages) ==
    SubSeq([i \in 1..Len(keys) |-> TranslatorEntry(siteKey, keys[i], triples, pages)],
           1, Len(keys))

\* the site created by the first of its triples (line 668), its translators sorted
SiteOfTriples(siteKey, mine, triples, pages) ==
    [name |-> mine[1].site.siteName,
     translators |-> SortTranslators(TranslatorsOf(siteKey, TranslatorKeys(mine),
                                                   triples, pages))]

\* bySite[siteKey] after the loops, its translators an array and sorted
SiteEntry(siteKey, triples, pages) ==
    SiteOfTriples(siteKey, SelectSeq(triples, LAMBDA x : SiteKey(x) = siteKey),
                  triples, pages)

\* sites.sort by name (line 693)
SortSites(sites) ==
    SortWith(sites, [i \in 1..Len(sites) |->
                        [j \in 1..Len(sites) |->
                            localeCompare(sites[i].name.s, sites[j].name.s) > 0]])

\* the site keys in the order they were first seen
SiteKeys(triples) == Dedup([i \in 1..Len(triples) |-> SiteKey(triples[i])])

\* Object.values(bySite) (line 692)
SitesOf(keys, triples, pages) ==
    SubSeq([i \in 1..Len(keys) |-> SiteEntry(keys[i], triples, pages)], 1, Len(keys))

IndexOfTriples(triples, pages) == SortSites(SitesOf(SiteKeys(triples), triples, pages))

\* buildTranslatorIndex(works, authorPages) when it returns
buildTranslatorIndex(ws, pages) == IndexOfTriples(Triples(ws, pages), pages)

\* buildTranslatorIndex ends in a TypeError: a page id, a translator name or a
\* site name that is not a string, or an author that slugify cannot take
buildTranslatorIndexThrows(ws, pages) ==
    \/ \E i \in 1..Len(pages) : Truthy(pages[i].qid) /\ pages[i].qid.t # "str"
    \/ \E i \in 1..Len(ws) :
        \/ AuthorSlugThrows(ws[i], pages)
        \/ \E j \in 1..Len(ws[i].translations) :
            \/ ws[i].translations[j].translator.t # "str"
            \/ \E k \in 1..Len(ws[i].translations[j].sites) :
                   ws[i].translations[j].sites[k].siteName.t # "str"

WHATS_NEW_LIMIT == 100

\* the comparator of line 748 turned round: oldest first
DateBefore(a, b) == StrLess(b.dateAdded.s, a.dateAdded.s)

\* the comparator of line 748: is work a put after work b
DateAfter(a, b) == StrLess(a.dateAdded.s, b.dateAdded.s)

\* the translations of a feed item: one row per translation and site (lines 761-772)
FeedRows(w) ==
    Flatten([j \in 1..Len(w.translations) |->
        [k \in 1..Len(w.translations[j].sites) |->
            [translator |-> w.translations[j].translator,
             translatorInfo |-> Or(w.translations[j].translatorInfo, JNull),
             siteName |-> w.translations[j].sites[k].siteName,
             url |-> w.translations[j].sites[k].url,
             volumes |-> w.translations[j].sites[k].volumes]]])

\* one item of the feed (lines 750-782)
FeedItem(w, pages) ==
    [id |-> w.id,
     title |-> w.title,
     year |-> w.year,
     dateAdded |-> w.dateAdded,
     authorName |-> AuthorNameOf(w, pages),
     authorSlug |-> AuthorSlugOf(w, pages),
     translations |-> FeedRows(w)]

\* slice(0, limit)
Slice(list, limit) == SubSeq(list, 1, IF Len(list) < limit THEN Len(list) ELSE limit)

\* the dated works, newest first
DatedWorks(ws) ==
    LET dated == SelectSeq(ws, LAMBDA w : Truthy(w.dateAdded))
    IN  SortWith(dated, [i \in 1..Len(dated) |->
                            [j \in 1..Len(dated) |-> DateAfter(dated[i], dated[j])]])

\* whatsNew (lines 746-782)
whatsNewOf(ws, pages) ==
    LET kept == Slice(DatedWorks(ws), WHATS_NEW_LIMIT)
    IN  [i \in 1..Len(kept) |-> FeedItem(kept[i], pages)]

whatsNewThrows(ws, pages) ==
    LET kept == Slice(DatedWorks(ws), WHATS_NEW_LIMIT)
    IN  \E i \in 1..Len(kept) : AuthorSlugThrows(kept[i], pages)

----------------------------------------------------------------------------
(* The raw records parseWork is run on *)

MaxNodes == 3
MaxEditions == 2
MaxYear == 2

\* one raw section item: its own keys in one of five layouts, then its sub-sections
RawItem(layout, id, children) ==
    LET own == CASE layout = 1 ->
                      << <<id, JStr("T" \o id)>>, <<"loci", JList(<<JStr("a"), JStr("b")>>)>> >>
                 [] layout = 2 -> << <<"loci", JStr("a")>>, <<id, JStr("T" \o id)>> >>
                 [] layout = 3 -> << <<"loci", JStr("b")>> >>
                 [] layout = 5 ->
                      << <<id, JStr("T" \o id)>>, <<"loci", JList(<<JStr("b"), JStr("b")>>)>> >>
                 [] OTHER -> << <<id, JStr("T" \o id)>>, <<"x" \o id, JStr("X")>> >>
    IN  Obj(IF children = <<>> THEN own
            ELSE Append(own, <<"sections", JList(children)>>))

Layouts == 1..5

RECURSIVE RawForests(_, _)
\* the raw section lists of exactly n items in all, the first one keyed id
RawForests(n, id) ==
    IF n = 0 THEN {<<>>}
    ELSE UNION {
           {<<RawItem(l, id, ch)>> \o rest :
               l \in Layouts, ch \in RawForests(j - 1, id \o "c"),
               rest \in RawForests(n - j, id \o "n")} : j \in 1..n}

RawSectionLists == UNION {RawForests(n, "s") : n \in 0..MaxNodes}

\* a record keyed by one work id
Record(id, pairs) == Obj(<< <<id, Obj(pairs)>> >>)

OptPair(k, vs) == {<<>>} \cup {<< <<k, v>> >> : v \in vs}

SectionRecords ==
    {Record("w1", << <<"author", JStr("Q1")>> >> \o lo
                  \o << <<"en", Obj(<< <<"title", JStr("E")>>, <<"sections", JList(f)>> >>)>> >>) :
        lo \in OptPair("loci", {JStr("a"), JList(<<JStr("c"), JStr("b"), JStr("c")>>)}),
        f \in RawSectionLists}

RawEditionKinds == {Obj(<< <<"year", JNum(y)>> >>) : y \in 1..MaxYear}
                     \cup {Obj(<< <<"place", JStr("Geneva")>> >>)}

RECURSIVE RawEditionLists(_)
RawEditionLists(n) ==
    IF n = 0 THEN {<<>>}
    ELSE RawEditionLists(n - 1)
         \cup {Append(l, e) : l \in {x \in RawEditionLists(n - 1) : Len(x) = n - 1},
                               e \in RawEditionKinds}

Block(title, orig, eds) ==
    Obj(<< <<"title", JStr(title)>> >>
        \o (IF orig THEN << <<"orig_lang", JBool(TRUE)>> >> ELSE <<>>)
        \o eds)

YearRecords ==
    {Record("w2", << <<"author", JStr("Q1")>> >>
                  \o (IF laFirst THEN << <<"la", Block("L", lo, le)>>, <<"fr", Block("F", fo, fe)>> >>
                      ELSE << <<"fr", Block("F", fo, fe)>>, <<"la", Block("L", lo, le)>> >>)
                  \o << <<"en", Obj(<< <<"title", JStr("E")>> >>)>> >>) :
        laFirst \in BOOLEAN, lo \in BOOLEAN, fo \in BOOLEAN,
        le \in OptPair("editions", {JList(l) : l \in RawEditionLists(MaxEditions)}),
        fe \in OptPair("editions", {JList(l) : l \in RawEditionLists(1)})}

TitleRecords ==
    {Record("w3", << <<"author", JStr("Q1")>> >> \o la \o en) :
        la \in OptPair("la", {Obj(<< <<"title", JStr("Institutio")>> >>),
                              Obj(<< <<"title", JStr("Institutio")>>, <<"orig_lang", JBool(TRUE)>> >>),
                              Obj(<< <<"orig_lang", JBool(TRUE)>> >>)}),
        en \in OptPair("en", {Obj(<<>>), Obj(<< <<"title", JStr("Institutes")>> >>),
                              Obj(<< <<"title", JStr("")>> >>)})}

AuthorRecords ==
    {Record("w4", au \o ca \o << <<"en", Obj(<< <<"title", JStr("E")>> >>)>> >>) :
        au \in OptPair("author", {JStr("Q1"), JList(<<JStr("Q1"), JStr("Q2")>>), JList(<<>>), JNull}),
        ca \in OptPair("corporate_author",
                  {JStr("Synod of Dort"),
                   Obj(<< <<"label", JStr("Synod of Dort")>>, <<"qid", JStr("Q123")>> >>),
                   Obj(<< <<"label", JStr("Synod of Dort")>> >>),
                   Obj(<< <<"qid", JStr("Q123")>> >>),
                   Obj(<<>>),
                   JNum(5)})}

\* records with a well-formed translation list
GoodSite == Obj(<< <<"site", JStr("CCEL")>>, <<"url", JStr("u1")>>,
                   <<"section_urls", JList(<<Obj(<< <<"s", JStr("u2")>> >>)>>)>> >>)
VolumeSite == Obj(<< <<"site", JStr("Archive")>>,
                     <<"url", Obj(<< <<"volumes", Obj(<< <<"1", JStr("v1")>> >>)>> >>)>>,
                     <<"text", JList(<<Obj(<< <<"s", JStr("text")>> >>)>>)>> >>)

EnRecord(id, pairs) ==
    Record(id, << <<"author", JStr("Q1")>>, <<"en", Obj(<< <<"title", JStr("E")>> >> \o pairs)>> >>)

LaRecord(id, orig, eds) ==
    Record(id, << <<"author", JStr("Q1")>>,
                  <<"la", Obj((IF orig THEN << <<"orig_lang", JBool(TRUE)>> >> ELSE <<>>)
                              \o << <<"editions", eds>> >>)>> >>)

TranslationRecords ==
    {EnRecord("w5", << <<"translations", JList(<<Obj(tr \o yr \o << <<"sites", JList(ss)>> >>)>>)>> >>) :
        tr \in OptPair("translator", {JStr("Beveridge")}),
        yr \in OptPair("year", {JNum(1845)}),
        ss \in {<<>>, <<GoodSite>>, <<VolumeSite>>, <<GoodSite, VolumeSite>>}}

\* records whose fields do not have the documented shapes
OddRecords ==
    {Record("w6", <<>>), Obj(<< <<"w6", JNull>> >>), Obj(<< <<"w6", JStr("text")>> >>),
     Obj(<< <<"w6", JNum(5)>> >>), JList(<<>>), JStr("hello"),
     Obj(<< <<"w6", JStr("")>> >>),
     EnRecord("w6", << <<"sections", JList(<<JNull>>)>> >>),
     EnRecord("w6", << <<"sections", JStr("ch1")>> >>),
     EnRecord("w6", << <<"sections", Obj(<< <<"ch1", JStr("One")>> >>)>> >>),
     EnRecord("w6", << <<"sections", JList(<<JStr("ch1")>>)>> >>),
     EnRecord("w6", << <<"sections", JList(<<JNum(1)>>)>> >>),
     EnRecord("w6", << <<"sections", JNull>> >>),
     EnRecord("w6", << <<"sections",
          JList(<<Obj(<< <<"ch1", JStr("One")>>, <<"sections", JStr("ch2")>> >>)>>)>> >>),
     EnRecord("w6", << <<"sections",
          JList(<<Obj(<< <<"ch1", JStr("One")>>, <<"sections", JList(<<JNull>>)>> >>)>>)>> >>),
     EnRecord("w6", << <<"sections",
          JList(<<Obj(<< <<"loci", JStr("a")>>, <<"sections", JStr("ch2")>> >>)>>)>> >>),
     EnRecord("w6", << <<"sections",
          JList(<<Obj(<< <<"ch1", JNum(1559)>>, <<"loci", JNum(7)>>, <<"sections", JNull>> >>)>>)>> >>),
     EnRecord("w6", << <<"translations", JList(<<JNull>>)>> >>),
     EnRecord("w6", << <<"translations", JStr("Beveridge")>> >>),
     EnRecord("w6", << <<"translations", JList(<<Obj(<< <<"sites", JList(<<JNull>>)>> >>)>>)>> >>),
     EnRecord("w6", << <<"translations", JList(<<Obj(<< <<"sites", JStr("CCEL")>> >>)>>)>> >>),
     EnRecord("w6", << <<"translations",
          JList(<<Obj(<< <<"sites", JList(<<Obj(<< <<"section_urls", JNum(5)>> >>)>>)>> >>)>>)>> >>),
     EnRecord("w6", << <<"translations",
          JList(<<Obj(<< <<"sites", JList(<<Obj(<< <<"text", JList(<<JNull>>)>> >>)>>)>> >>)>>)>> >>),
     LaRecord("w6", TRUE, JList(<<JNull>>)),
     LaRecord("w6", FALSE, JList(<<JNull>>)),
     LaRecord("w6", TRUE, Obj(<< <<"year", JNum(1)>> >>)),
     LaRecord("w6", FALSE, JNum(1559)),
     LaRecord("w6", TRUE, JStr("1559")),
     LaRecord("w6", TRUE, JList(<<Obj(<< <<"year", JNum(1)>>, <<"sites", JList(<<JNull>>)>> >>)>>)),
     LaRecord("w6", TRUE, JList(<<Obj(<< <<"year", JNum(1)>>, <<"sites", JNum(5)>> >>)>>)),
     LaRecord("w6", TRUE, JList(<<Obj(<< <<"year", JNum(1)>>, <<"oclc", JNum(42)>>,
          <<"sites", JList(<<Obj(<< <<"site", JStr("BSB")>>, <<"url", JStr("u")>> >>)>>)>> >>)>>)),
     Record("w6", << <<"author", JStr("Q1")>>, <<"corporate_author", JList(<<JStr("Dort")>>)>> >>),
     Record("w6", << <<"author", JStr("Q1")>>, <<"date_added", JDate("2024-05-01")>> >>),
     Record("w6", << <<"author", JStr("Q1")>>, <<"date_added", JStr("2024-05-01")>>,
                     <<"category", JStr("systematic")>> >>)}

ParseInputs ==
    SectionRecords \cup YearRecords \cup TitleRecords \cup AuthorRecords
        \cup TranslationRecords \cup OddRecords

TranslatorsYaml == Obj(<< <<"Beveridge", Obj(<< <<"bio", JStr("Henry Beveridge")>> >>)>> >>)

\* no call has returned yet
Pending == [t |-> "pending"]

InitParse ==
    /\ pc = "start"
    /\ data \in ParseInputs
    /\ fileId = FirstKey(data)
    /\ result = Pending
    /\ translatorsMap = TranslatorsYaml
    /\ files = <<>>
    /\ authors = Obj(<<>>)
    /\ works = <<>>
    /\ authorPages = <<>>
    /\ lociIndex = Obj(<<>>)
    /\ prevIndex = Obj(<<>>)
    /\ runs = 0
    /\ errors = <<>>
    /\ lociTree = JList(<<>>)
    /\ lociFlat = Obj(<<>>)
    /\ translatorIndex = <<>>
    /\ whatsNew = <<>>
    /\ worksIndex = <<>>

\* const work = parseWork(fileId, data, translatorsMap)
ParseWorkCall ==
    /\ pc = "start"
    /\ pc' = "parsed"
    /\ result' = parseWork(fileId, data, translatorsMap)
    /\ UNCHANGED <<fileId, data, translatorsMap, files, authors, works, authorPages, lociIndex, prevIndex, runs,
                   errors, lociTree, lociFlat, translatorIndex, whatsNew, worksIndex>>

NextParse == ParseWorkCall

SpecParse == InitParse /\ [][NextParse]_vars

----------------------------------------------------------------------------
(* The works directory loadAllWorks is run on *)

MaxFiles == 3

\* the entries of the works directory
FileNames == {"a2.yaml", "a10.yaml", "B.yaml", "notes.txt"}

\* the name without its extension
Stem(name) == SubSeq(name, 1, Len(name) - 5)

\* what yaml.load gives for the file called name, by kind: a record under the
\* file's stem, a record under another id, a syntax error, an empty document, a
\* record whose section list is not a list, a record without value
FileContent(name, kind) ==
    CASE kind = 1 -> Record(Stem(name), << <<"author", JStr("Q1")>>,
                                           <<"en", Obj(<< <<"title", JStr("T")>> >>)>> >>)
      [] kind = 2 -> Record("x", << <<"author", JStr("Q1")>>,
                                    <<"en", Obj(<< <<"title", JStr("T")>> >>)>> >>)
      [] kind = 3 -> YamlError
      [] kind = 4 -> JUndef
      [] kind = 5 -> Record(Stem(name), << <<"author", JStr("Q1")>>,
                                           <<"en", Obj(<< <<"sections", JStr("none")>> >>)>> >>)
      [] OTHER -> Obj(<< <<Stem(name), JNull>> >>)

FileKinds == 1..6

\* a file that is not a .yaml file is never read: its content is of one kind
FileKindsOf(name) == IF EndsWith(name, ".yaml") THEN FileKinds ELSE {1}

\* the sequences of n different file names
NameSeqs(n) == {q \in [1..n -> FileNames] : \A i, j \in 1..n : i # j => q[i] # q[j]}

\* the kinds of content the files named ns can have
KindSeqs(ns) ==
    {k \in [1..Len(ns) -> FileKinds] : \A i \in 1..Len(ns) : k[i] \in FileKindsOf(ns[i])}

\* the directories: up to MaxFiles entries of different names, in any order
Directories ==
    UNION {UNION {{[i \in 1..n |-> [name |-> ns[i], data |-> FileContent(ns[i], ks[i])]] :
                      ks \in KindSeqs(ns)} : ns \in NameSeqs(n)} : n \in 0..MaxFiles}

InitLoad ==
    /\ pc = "list"
    /\ files \in Directories
    /\ translatorsMap = TranslatorsYaml
    /\ works = <<>>
    /\ errors = <<>>
    /\ fileId = JUndef
    /\ data = JUndef
    /\ result = Pending
    /\ authors = Obj(<<>>)
    /\ authorPages = <<>>
    /\ lociIndex = Obj(<<>>)
    /\ prevIndex = Obj(<<>>)
    /\ runs = 0
    /\ lociTree = JList(<<>>)
    /\ lociFlat = Obj(<<>>)
    /\ translatorIndex = <<>>
    /\ whatsNew = <<>>
    /\ worksIndex = <<>>

\* const works = loadAllWorks(translatorsMap)
LoadAllWorksCall ==
    /\ pc = "list"
    /\ pc' = "loaded"
    /\ works' = loadAllWorks(files, translatorsMap)
    /\ errors' = loadAllWorksErrors(files, translatorsMap)
    /\ UNCHANGED <<fileId, data, result, translatorsMap, files, authors, authorPages,
                   lociIndex, prevIndex, runs, lociTree, lociFlat, translatorIndex, whatsNew, worksIndex>>

NextLoad == LoadAllWorksCall

SpecLoad == InitLoad /\ [][NextLoad]_vars

----------------------------------------------------------------------------
(* The taxonomies buildLociFlat is run on *)

MaxTopics == 3

TopicSlugs == {"a", "b", "c", "d"}

\* a node of loci.yaml; a leaf carries no children key
TopicNode(slug, children) ==
    Obj(<< <<"name", JStr("Topic " \o slug)>>, <<"slug", JStr(slug)>> >>
        \o (IF children = <<>> THEN <<>> ELSE << <<"children", JList(children)>> >>))

RECURSIVE TopicForests(_)
\* the forests of exactly n nodes
TopicForests(n) ==
    IF n = 0 THEN {<<>>}
    ELSE UNION {
           {<<TopicNode(sl, ch)>> \o rest :
               sl \in TopicSlugs, ch \in TopicForests(j - 1), rest \in TopicForests(n - j)} :
           j \in 1..n}

Taxonomies == UNION {{JList(f) : f \in TopicForests(n)} : n \in 0..MaxTopics}

InitLoci ==
    /\ pc = "tree"
    /\ lociTree \in Taxonomies
    /\ lociFlat = Obj(<<>>)
    /\ translatorsMap = Obj(<<>>)
    /\ files = <<>>
    /\ works = <<>>
    /\ errors = <<>>
    /\ fileId = JUndef
    /\ data = JUndef
    /\ result = Pending
    /\ authors = Obj(<<>>)
    /\ authorPages = <<>>
    /\ lociIndex = Obj(<<>>)
    /\ prevIndex = Obj(<<>>)
    /\ runs = 0
    /\ translatorIndex = <<>>
    /\ whatsNew = <<>>
    /\ worksIndex = <<>>

\* const lociFlat = buildLociFlat(lociTree)
BuildLociFlatCall ==
    /\ pc = "tree"
    /\ pc' = "flat"
    /\ lociFlat' = buildLociFlat(lociTree.items, <<>>, Obj(<<>>))
    /\ UNCHANGED <<fileId, data, result, translatorsMap, files, authors, works, authorPages,
                   lociIndex, prevIndex, runs, errors, lociTree, translatorIndex, whatsNew, worksIndex>>

NextLoci == BuildLociFlatCall

SpecLoci == InitLoci /\ [][NextLoci]_vars

----------------------------------------------------------------------------
(* The build: module.exports *)

MaxWorks == 2
MaxRuns == 2

\* a profile as fetch-wikidata.js caches it
Profile(qid, name, birthYear, familyName, givenName) ==
    Obj(<< <<"qid", JStr(qid)>>, <<"name", JStr(name)>>, <<"slug", JStr(slugify(name))>>,
           <<"birthYear", birthYear>>, <<"deathYear", JNull>>, <<"imageUrl", JNull>>,
           <<"wikipediaUrl", JNull>>, <<"prdlId", JNull>>,
           <<"familyName", familyName>>, <<"givenName", givenName>>,
           <<"labels", Obj(<<>>)>> >>)

\* the author cache of the runs: Q4 and Q8 are not cached, Q5 and Q7 have no birth year
AuthorCache ==
    Obj(<< <<"Q1", Profile("Q1", "John Owen", JNum(1616), JStr("Owen"), JStr("John"))>>,
           <<"Q2", Profile("Q2", "John Owen", JNum(1683), JStr("Owen"), JStr("John"))>>,
           <<"Q3", Put(Profile("Q3", "Francis Turretin", JNum(1623), JNull, JNull),
                       "labels", Obj(<< <<"fr", JStr("Francois Turrettini")>> >>))>>,
           <<"Q5", Profile("Q5", "James Owen", JNull, JStr("Owen"), JStr("James"))>>,
           <<"Q6", Profile("Q6", "Owen of Coventry", JNum(1600), JNull, JNull)>>,
           <<"Q7", Profile("Q7", "Jane Owen", JNull, JStr("Owen"), JStr("Jane"))>>,
           <<"Q9", Profile("Q9", "Owen Society", JNull, JNull, JNull)>> >>)

\* display_names.yaml: corporate_authors
CorporateShortNames == Obj(<< <<"Society of John Owen", JStr("Owen Society")>> >>)

\* traditions.yaml: authors
TraditionAuthors == Obj(<< <<"Q1", JStr("reformed")>>, <<"Q9", JStr("reformed")>> >>)

EnBlock(id, secs) ==
    <<"en", Obj(<< <<"title", JStr("Title " \o id)>> >>
                \o (IF secs = <<>> THEN <<>> ELSE << <<"sections", JList(secs)>> >>))>>

\* an English block with one translation on one site
DatedEnBlock(id, translator, site) ==
    <<"en", Obj(<< <<"title", JStr("Title " \o id)>>,
                   <<"translations", JList(<<Obj(<< <<"translator", JStr(translator)>>,
                        <<"sites", JList(<<Obj(<< <<"site", JStr(site)>>,
                                                  <<"url", JStr("u")>> >>)>>)>> >>)>>)>> >>)>>

\* the taxonomy of the build: a above b, and c
SiteTaxonomy ==
    JList(<<TopicNode("a", <<TopicNode("b", <<>>)>>), TopicNode("c", <<>>)>>)

\* what readFileSync leaves when loci.yaml does not exist: it throws
FileMissing == [t |-> "missing"]

\* the work records the corpus is made of, each under the id it is given
Template(k, id) ==
    CASE k = 1 -> Record(id, << <<"author", JStr("Q1")>>, <<"loci", JStr("a")>>,
                                <<"date_added", JDate("2024-01-15")>>,
                                DatedEnBlock(id, "Beveridge", "CCEL") >>)
      [] k = 2 -> Record(id, << <<"author", JStr("Q2")>>, <<"loci", JStr("a")>>,
                                <<"date_added", JStr("2023-12-31")>>,
                                DatedEnBlock(id, "beveridge", "ccel") >>)
      [] k = 3 -> Record(id, << <<"author", JStr("Q5")>>,
                                <<"loci", JList(<<JStr("a"), JStr("b")>>)>>,
                                EnBlock(id, <<Obj(<< <<id \o "s", JStr("One")>>,
                                                     <<"loci", JStr("a")>> >>)>>) >>)
      [] k = 4 -> Record(id, << <<"author", JStr("Q6")>>,
                                EnBlock(id, <<Obj(<< <<id \o "s", JStr("One")>>, <<"loci", JStr("a")>>,
                                    <<"sections", JList(<<Obj(<< <<id \o "sc", JStr("Sub")>>,
                                                                <<"loci", JStr("b")>> >>)>>)>> >>)>>) >>)
      [] k = 5 -> Record(id, << <<"author", JStr("Q4")>>, <<"loci", JStr("b")>>, EnBlock(id, <<>>) >>)
      [] k = 6 -> Record(id, << <<"author", JList(<<JStr("Q1"), JStr("Q2")>>)>>,
                                <<"corporate_author", Obj(<< <<"label", JStr("Society of John Owen")>>,
                                                             <<"qid", JStr("Q9")>> >>)>>,
                                <<"loci", JStr("a")>>,
                                <<"date_added", JDate("2024-01-15")>>,
                                DatedEnBlock(id, "Allen", "CCEL") >>)
      [] k = 7 -> Record(id, << <<"author", JList(<<JStr("Q3"), JStr("Q1"), JStr("Q4")>>)>>,
                                <<"corporate_author", JStr("Synod of Dort")>>,
                                <<"loci", JStr("a")>>,
                                EnBlock(id, <<Obj(<< <<id \o "s", JStr("One")>>,
                                                     <<"loci", JStr("b")>> >>)>>) >>)
      [] k = 9 -> Record(id, << <<"loci", JStr("b")>>, EnBlock(id, <<>>) >>)
      [] k = 10 -> Record(id, << <<"corporate_author", JStr("Synod of Dort")>>,
                                 <<"loci", JStr("a")>>, EnBlock(id, <<>>) >>)
      [] k = 11 -> Record(id, << <<"author", JStr("Q3")>>,
                                 <<"la", Obj(<< <<"title", JStr("Institutio")>>,
                                                <<"orig_lang", JBool(TRUE)>> >>)>>,
                                 EnBlock(id, <<>>) >>)
      [] k = 12 -> Record(id, << <<"author", JStr("Q3")>>,
                                 <<"fr", Obj(<< <<"title", JStr("Institution")>>,
                                                <<"orig_lang", JBool(TRUE)>> >>)>>,
                                 EnBlock(id, <<>>) >>)
      [] k = 13 -> Record(id, << <<"author", JStr("Q7")>>, <<"loci", JStr("a")>>,
                                 EnBlock(id, <<>>) >>)
      [] OTHER -> Record(id, << <<"author", JList(<<JStr("Q2")>>)>>,
                                <<"corporate_author", Obj(<< <<"label", JStr("Synod of Dort")>>,
                                                             <<"qid", JStr("Q8")>> >>)>>,
                                <<"loci", JStr("b")>>,
                                <<"date_added", JStr("2024-02-01")>>,
                                DatedEnBlock(id, "Allen", "Archive") >>)

Templates == 1..13

\* the corpora: up to MaxWorks files, file i holding a record of id w<i>
Corpora ==
    UNION {{[i \in 1..n |-> [name |-> "w" \o ToString(i) \o ".yaml",
                             data |-> Template(ks[i], "w" \o ToString(i))]] :
               ks \in [1..n -> Templates]} : n \in 0..MaxWorks}

Init ==
    /\ pc = "taxonomy"
    /\ files \in Corpora
    /\ lociTree \in {SiteTaxonomy, JUndef, FileMissing}
    /\ authors = AuthorCache
    /\ translatorsMap = TranslatorsYaml
    /\ works = <<>>
    /\ errors = <<>>
    /\ lociFlat = Obj(<<>>)
    /\ authorPages = <<>>
    /\ lociIndex = Obj(<<>>)
    /\ prevIndex = Obj(<<>>)
    /\ worksIndex = <<>>
    /\ translatorIndex = <<>>
    /\ whatsNew = <<>>
    /\ runs = 1
    /\ fileId = JUndef
    /\ data = JUndef
    /\ result = Pending

\* lines 709-710: readFileSync throws when loci.yaml is missing, and the loop of
\* buildLociFlat when the document is empty
LoadTaxonomy ==
    /\ pc = "taxonomy"
    /\ IF lociTree = FileMissing \/ ~Iterable(lociTree)
       THEN pc' = "abortedTaxonomy" /\ UNCHANGED lociFlat
       ELSE /\ lociFlat' = buildLociFlat(lociTree.items, <<>>, Obj(<<>>))
            /\ pc' = "load"
    /\ UNCHANGED <<fileId, data, result, translatorsMap, files, authors, works, authorPages, lociIndex,
                   prevIndex, runs, errors, lociTree, translatorIndex, whatsNew, worksIndex>>

\* lines 711-716: the caches and the works are loaded
LoadCorpus ==
    /\ pc = "load"
    /\ works' = loadAllWorks(files, translatorsMap)
    /\ errors' = loadAllWorksErrors(files, translatorsMap)
    /\ pc' = "pages"
    /\ UNCHANGED <<fileId, data, result, translatorsMap, files, authors, authorPages, lociIndex, prevIndex,
                   runs, lociTree, lociFlat, translatorIndex, whatsNew, worksIndex>>

\* line 717
BuildAuthorPages ==
    /\ pc = "pages"
    /\ IF buildAuthorPagesThrows(works, authors)
       THEN pc' = "abortedPages" /\ UNCHANGED <<works, authorPages>>
       ELSE /\ authorPages' = buildAuthorPages(works, authors, TraditionAuthors)
            /\ works' = ResolvedWorks(works, authors)
            /\ pc' = "index"
    /\ UNCHANGED <<fileId, data, result, translatorsMap, files, authors, lociIndex, prevIndex, runs,
                   errors, lociTree, lociFlat, translatorIndex, whatsNew, worksIndex>>

\* line 718
BuildLociIndex ==
    /\ pc = "index"
    /\ IF buildLociIndexThrows(works, authors)
       THEN pc' = "abortedIndex" /\ UNCHANGED lociIndex
       ELSE /\ lociIndex' = buildLociIndex(lociFlat, works, authors, CorporateShortNames)
            /\ pc' = "names"
    /\ UNCHANGED <<fileId, data, result, translatorsMap, files, authors, works, authorPages, prevIndex,
                   runs, errors, lociTree, lociFlat, translatorIndex, whatsNew, worksIndex>>

\* line 719
ComputeDisplayNames ==
    /\ pc = "names"
    /\ lociIndex' = computeDisplayNames(lociIndex)
    /\ pc' = "tradition"
    /\ UNCHANGED <<fileId, data, result, translatorsMap, files, authors, works, authorPages, prevIndex,
                   runs, errors, lociTree, lociFlat, translatorIndex, whatsNew, worksIndex>>

\* lines 721-726
AnnotateTradition ==
    /\ pc = "tradition"
    /\ lociIndex' = annotateTradition(lociIndex, TraditionAuthors)
    /\ pc' = "worksIndex"
    /\ UNCHANGED <<fileId, data, result, translatorsMap, files, authors, works, authorPages, prevIndex,
                   runs, errors, lociTree, lociFlat, translatorIndex, whatsNew, worksIndex>>

\* lines 729-733
BuildWorksIndex ==
    /\ pc = "worksIndex"
    /\ worksIndex' = worksIndexOf(authorPages)
    /\ pc' = "translators"
    /\ UNCHANGED <<fileId, data, result, translatorsMap, files, authors, works, authorPages, lociIndex,
                   prevIndex, runs, errors, lociTree, lociFlat, translatorIndex, whatsNew>>

\* line 735
BuildTranslatorIndex ==
    /\ pc = "translators"
    /\ IF buildTranslatorIndexThrows(works, authorPages)
       THEN pc' = "abortedTranslators" /\ UNCHANGED translatorIndex
       ELSE /\ translatorIndex' = buildTranslatorIndex(works, authorPages)
            /\ pc' = "whatsNew"
    /\ UNCHANGED <<fileId, data, result, translatorsMap, files, authors, works, authorPages, lociIndex,
                   prevIndex, runs, errors, lociTree, lociFlat, whatsNew, worksIndex>>

\* lines 737-795: the feed is built and the outputs are returned
BuildWhatsNew ==
    /\ pc = "whatsNew"
    /\ IF whatsNewThrows(works, authorPages)
       THEN pc' = "abortedWhatsNew" /\ UNCHANGED whatsNew
       ELSE /\ whatsNew' = whatsNewOf(works, authorPages)
            /\ pc' = "done"
    /\ UNCHANGED <<fileId, data, result, translatorsMap, files, authors, works, authorPages, lociIndex,
                   prevIndex, runs, errors, lociTree, lociFlat, translatorIndex, worksIndex>>

\* the next build of the site over the same files: the data function is called again
Rebuild ==
    /\ pc = "done"
    /\ runs < MaxRuns
    /\ prevIndex' = lociIndex
    /\ runs' = runs + 1
    /\ pc' = "taxonomy"
    /\ UNCHANGED <<fileId, data, result, translatorsMap, files, authors, works, authorPages, lociIndex,
                   errors, lociTree, lociFlat, translatorIndex, whatsNew, worksIndex>>

Next ==
    \/ LoadTaxonomy
    \/ LoadCorpus
    \/ BuildAuthorPages
    \/ BuildLociIndex
    \/ ComputeDisplayNames
    \/ AnnotateTradition
    \/ BuildWorksIndex
    \/ BuildTranslatorIndex
    \/ BuildWhatsNew
    \/ Rebuild

Spec == Init /\ [][Next]_vars

----------------------------------------------------------------------------
(* The recency feed over a dated corpus *)

MaxPeriod == 2
MaxFeedWorks == 5

\* the values of date_added: none, an unquoted date (a Date), a quoted one
DateChoices == {JUndef, JDate("2024-01-15"), JStr("2023-12-31")}

\* the sizes of the corpus: small ones, the limit of the feed and one above it
FeedSizes == 0..MaxFeedWorks \cup {WHATS_NEW_LIMIT, WHATS_NEW_LIMIT + 1}

\* translation j of work i: one site or two
FeedTranslation(i, j) ==
    Obj(<< <<"translator", JStr(IF j = 1 THEN "Beveridge" ELSE "Allen")>>,
           <<"sites", JList([k \in 1..(1 + ((i + j) % 2)) |->
                 Obj(<< <<"site", JStr(IF k = 1 THEN "CCEL" ELSE "Archive")>>,
                        <<"url", JStr("u" \o ToString(j) \o ToString(k))>> >>)])>> >>)

\* work i of the dated corpus: i % 3 translations, date_added as given
FeedRecord(i, date) ==
    Record("w" \o ToString(i),
           << <<"author", JStr(IF i % 2 = 0 THEN "Q1" ELSE "Q4")>> >>
           \o (IF date = JUndef THEN <<>> ELSE << <<"date_added", date>> >>)
           \o << <<"en", Obj(<< <<"title", JStr("Title")>> >>
                    \o (IF i % 3 = 0 THEN <<>>
                        ELSE << <<"translations",
                                  JList([j \in 1..(i % 3) |-> FeedTranslation(i, j)])>> >>))>> >>)

\* n files whose dates repeat the pattern
FeedCorpus(n, pattern) ==
    [i \in 1..n |-> [name |-> "w" \o ToString(i) \o ".yaml",
                     data |-> FeedRecord(i, pattern[1 + ((i - 1) % Len(pattern))])]]

FeedCorpora ==
    {FeedCorpus(n, pattern) : n \in FeedSizes, pattern \in [1..MaxPeriod -> DateChoices]}

InitFeed ==
    /\ pc = "feed"
    /\ files \in FeedCorpora
    /\ authors = AuthorCache
    /\ translatorsMap = TranslatorsYaml
    /\ works = <<>>
    /\ errors = <<>>
    /\ lociTree = SiteTaxonomy
    /\ lociFlat = Obj(<<>>)
    /\ authorPages = <<>>
    /\ lociIndex = Obj(<<>>)
    /\ prevIndex = Obj(<<>>)
    /\ worksIndex = <<>>
    /\ translatorIndex = <<>>
    /\ whatsNew = <<>>
    /\ runs = 1
    /\ fileId = JUndef
    /\ data = JUndef
    /\ result = Pending

\* module.exports as far as the feed depends on it: the works are loaded, the
\* author pages built and whatsNew computed (lines 713, 717, 737-782)
WhatsNewCall ==
    /\ pc = "feed"
    /\ works' = ResolvedWorks(loadAllWorks(files, translatorsMap), authors)
    /\ authorPages' = buildAuthorPages(works', authors, TraditionAuthors)
    /\ whatsNew' = whatsNewOf(works', authorPages')
    /\ pc' = "fed"
    /\ UNCHANGED <<fileId, data, result, translatorsMap, files, authors, lociIndex,
                   prevIndex, runs, errors, lociTree, lociFlat, translatorIndex, worksIndex>>

NextFeed == WhatsNewCall

SpecFeed == InitFeed /\ [][NextFeed]_vars

----------------------------------------------------------------------------
(* The translator index over a corpus with translations *)

MaxEntries == 2

\* the translations on offer: the translator and the sites, each as spelt
TrEditions ==
    {[translator |-> "John Allen", sites |-> <<"ccel", "Archive">>],
     [translator |-> "Anne Allen", sites |-> <<"CCEL">>],
     [translator |-> "Henry Beveridge", sites |-> <<"CCEL">>],
     [translator |-> "henry beveridge", sites |-> <<"ccel", "Archive">>]}

\* translators.yaml
TranslatorBios == Obj(<< <<"Henry Beveridge", Obj(<< <<"bio", JStr("Scottish advocate")>> >>)>> >>)

\* the works of the corpus: their authors (Q4 is not in the cache) and titles
TrAuthors == <<"Q4", "Q1", "Q1">>

TrTitles == <<"Zeta", "Beta", "Alpha">>

\* the translation entries: the work, the translator as spelt, the sites as spelt
TrEntries ==
    {[work |-> w, translator |-> e.translator, sites |-> e.sites] :
        w \in 1..Len(TrAuthors), e \in TrEditions}

TrEntryLists == UNION {[1..n -> TrEntries] : n \in 0..MaxEntries}

\* the record of work i, its translations being the entries of the list for it
TrRecord(i, entries) ==
    LET mine == SelectSeq(entries, LAMBDA e : e.work = i)
    IN  Record("w" \o ToString(i),
               << <<"author", JStr(TrAuthors[i])>>,
                  <<"en", Obj(<< <<"title", JStr(TrTitles[i])>>,
                      <<"translations", JList([j \in 1..Len(mine) |->
                          Obj(<< <<"translator", JStr(mine[j].translator)>>,
                                 <<"sites", JList([k \in 1..Len(mine[j].sites) |->
                                     Obj(<< <<"site", JStr(mine[j].sites[k])>>,
                                            <<"url", JStr("u")>> >>)])>> >>)])>> >>)>> >>)

TrCorpus(entries) ==
    [i \in 1..Len(TrAuthors) |-> [name |-> "w" \o ToString(i) \o ".yaml",
                                  data |-> TrRecord(i, entries)]]

InitTranslators ==
    /\ pc = "invert"
    /\ files \in {TrCorpus(entries) : entries \in TrEntryLists}
    /\ authors = AuthorCache
    /\ translatorsMap = TranslatorBios
    /\ works = <<>>
    /\ errors = <<>>
    /\ lociTree = SiteTaxonomy
    /\ lociFlat = Obj(<<>>)
    /\ authorPages = <<>>
    /\ lociIndex = Obj(<<>>)
    /\ prevIndex = Obj(<<>>)
    /\ worksIndex = <<>>
    /\ translatorIndex = <<>>
    /\ whatsNew = <<>>
    /\ runs = 1
    /\ fileId = JUndef
    /\ data = JUndef
    /\ result = Pending

\* module.exports as far as the translator index depends on it: the works are
\* loaded, the author pages built and buildTranslatorIndex called (lines 712-735)
TranslatorIndexCall ==
    /\ pc = "invert"
    /\ works' = ResolvedWorks(loadAllWorks(files, translatorsMap), authors)
    /\ authorPages' = buildAuthorPages(works', authors, TraditionAuthors)
    /\ translatorIndex' = buildTranslatorIndex(works', authorPages')
    /\ pc' = "inverted"
    /\ UNCHANGED <<fileId, data, result, translatorsMap, files, authors, lociIndex,
                   prevIndex, runs, errors, lociTree, lociFlat, whatsNew, worksIndex>>

NextTranslators == TranslatorIndexCall

SpecTranslators == InitTranslators /\ [][NextTranslators]_vars

----------------------------------------------------------------------------
(* The loci index over a corpus of copied and loosely tagged files *)

MaxTopicFiles == 3

\* the records of the corpus: tagged in the taxonomy, tagged in a section with a
\* topic loci.yaml does not list, a copy of w1.yaml (its record is still under
\* the key w1), and a record with two topics
TopicRecord(k, id) ==
    CASE k = 1 -> Record(id, << <<"author", JStr("Q1")>>, <<"loci", JStr("a")>>,
                                EnBlock(id, <<>>) >>)
      [] k = 2 -> Record(id, << <<"author", JStr("Q4")>>,
                                EnBlock(id, <<Obj(<< <<id \o "s", JStr("One")>>,
                                                     <<"loci", JStr("x")>> >>)>>) >>)
      [] k = 3 -> Record("w1", << <<"author", JStr("Q4")>>, <<"loci", JStr("c")>>,
                                  EnBlock("w1", <<>>) >>)
      [] OTHER -> Record(id, << <<"author", JStr("Q1")>>,
                                <<"loci", JList(<<JStr("a"), JStr("b")>>)>>,
                                EnBlock(id, <<>>) >>)

TopicRecords == 1..4

\* up to MaxTopicFiles files, file i named w<i>.yaml
TopicCorpora ==
    UNION {{[i \in 1..n |-> [name |-> "w" \o ToString(i) \o ".yaml",
                             data |-> TopicRecord(ks[i], "w" \o ToString(i))]] :
               ks \in [1..n -> TopicRecords]} : n \in 0..MaxTopicFiles}

InitTopics ==
    /\ pc = "topics"
    /\ files \in TopicCorpora
    /\ authors = AuthorCache
    /\ translatorsMap = TranslatorsYaml
    /\ works = <<>>
    /\ errors = <<>>
    /\ lociTree = SiteTaxonomy
    /\ lociFlat = Obj(<<>>)
    /\ authorPages = <<>>
    /\ lociIndex = Obj(<<>>)
    /\ prevIndex = Obj(<<>>)
    /\ worksIndex = <<>>
    /\ translatorIndex = <<>>
    /\ whatsNew = <<>>
    /\ runs = 1
    /\ fileId = JUndef
    /\ data = JUndef
    /\ result = Pending

\* module.exports as far as the loci index depends on it: the taxonomy is
\* flattened, the works are loaded, the author pages built, the index built and
\* the display names computed (lines 709-719)
LociIndexCall ==
    /\ pc = "topics"
    /\ lociFlat' = buildLociFlat(lociTree.items, <<>>, Obj(<<>>))
    /\ works' = ResolvedWorks(loadAllWorks(files, translatorsMap), authors)
    /\ errors' = loadAllWorksErrors(files, translatorsMap)
    /\ authorPages' = buildAuthorPages(works', authors, TraditionAuthors)
    /\ lociIndex' = computeDisplayNames(
                        buildLociIndex(lociFlat', works', authors, CorporateShortNames))
    /\ pc' = "indexed"
    /\ UNCHANGED <<fileId, data, result, translatorsMap, files, authors, prevIndex, runs,
                   lociTree, translatorIndex, whatsNew, worksIndex>>

NextTopics == LociIndexCall

SpecTopics == InitTopics /\ [][NextTopics]_vars

----------------------------------------------------------------------------
(* Properties of parseWork *)

\* the work under the record's id, and whether the call returned a Work
RawWork == Get(data, String(fileId))
Parsed == pc = "parsed" /\ result.t = "work"

\* the language blocks of the raw work, by key
BlockKeys == {k \in {RawWork.keys[i] : i \in 1..Len(RawWork.keys)} :
                 k \notin WORK_META_KEYS /\ Get(RawWork, k).t = "map"}
KeyPos(k) == CHOOSE i \in 1..Len(RawWork.keys) : RawWork.keys[i] = k
MarkedKeys == {k \in BlockKeys : Truthy(Get(Get(RawWork, k), "orig_lang"))}
\* the designated original-language block: the first marked one in key order
Designated == CHOOSE k \in MarkedKeys : \A m \in MarkedKeys : KeyPos(k) <= KeyPos(m)

\* the years of the editions of block k that have one
EditionYears(k) ==
    LET eds == Get(Get(RawWork, k), "editions")
    IN  IF eds.t = "list"
        THEN {Get(eds.items[i], "year").n :
                 i \in {j \in 1..Len(eds.items) : Get(eds.items[j], "year").t = "num"
                                                   /\ Get(eds.items[j], "year").n # 0}}
        ELSE {}
Minimum(S) == CHOOSE x \in S : \A y \in S : x <= y
AllYears == UNION {EditionYears(k) : k \in BlockKeys}

\* C5: year is the least edition year of the designated original-language block
\* when that block has a dated edition (the other blocks are then not consulted),
\* else the least edition year over all language blocks, else null; undated
\* editions never count.
C5_YearIsMinimum ==
    Parsed /\ RawWork.t = "map" =>
        IF MarkedKeys # {} /\ EditionYears(Designated) # {}
        THEN result.year = JNum(Minimum(EditionYears(Designated)))
        ELSE IF AllYears # {} THEN result.year = JNum(Minimum(AllYears))
        ELSE result.year = JNull

\* the designated block is dated, another block holds an earlier year, and an
\* undated edition stands beside the dated ones
C5_Witness ==
    /\ Parsed /\ RawWork.t = "map"
    /\ MarkedKeys # {} /\ EditionYears(Designated) # {}
    /\ Minimum(AllYears) < Minimum(EditionYears(Designated))
    /\ Cardinality(EditionYears(Designated)) < Len(Get(Get(RawWork, Designated), "editions").items)
    /\ result.year = JNum(Minimum(EditionYears(Designated)))

\* the title of the designated original-language block (undefined when there is none)
DesignatedTitle == IF MarkedKeys = {} THEN JUndef ELSE Get(Get(RawWork, Designated), "title")

\* the title rule: English title, else the designated original block's title, else the id
TitleRule ==
    result.title =
        IF Truthy(Get(Get(RawWork, "en"), "title")) THEN Get(Get(RawWork, "en"), "title")
        ELSE IF Truthy(DesignatedTitle) THEN DesignatedTitle
        ELSE fileId

\* a record with a la title and no English title
OnlyLaTitle == Truthy(Get(Get(RawWork, "la"), "title")) /\ ~Truthy(Get(Get(RawWork, "en"), "title"))

SeqSet(q) == {q[i] : i \in 1..Len(q)}
NoDuplicate(q) == \A i, j \in 1..Len(q) : i # j => q[i] # q[j]

RECURSIVE SectionTopics(_)
\* the topics of the sections of a list, at every depth
SectionTopics(sections) ==
    UNION {SeqSet(sections[i].loci) \cup SectionTopics(sections[i].children) :
              i \in 1..Len(sections)}

\* C7: the Work's topic set holds no duplicate and is exactly the union of the
\* work-level topics and the topics of every section at every nesting depth.
C7_TopicSet ==
    Parsed =>
        /\ NoDuplicate(result.allLoci)
        /\ SeqSet(result.allLoci) = SeqSet(result.workLoci) \cup SectionTopics(result.sections)

\* a topic is repeated among the work-level topics and a nested section brings one
C7_Witness ==
    /\ Parsed
    /\ ~NoDuplicate(result.workLoci)
    /\ \E i \in 1..Len(result.sections) :
          /\ result.sections[i].children # <<>>
          /\ SectionTopics(result.sections[i].children) \ SeqSet(result.workLoci) # {}

\* the keys of a raw item that are not reserved, in key order
OwnKeys(item) == SelectSeq(item.keys, LAMBDA k : k \notin {"loci", "sections"})
RawChildren(item) == IF HasKey(item, "sections") THEN Get(item, "sections") ELSE JList(<<>>)

RECURSIVE AllKeyed(_)
\* every item of the raw list, at every depth, is a mapping with a non-reserved key
AllKeyed(list) ==
    /\ list.t = "list"
    /\ \A i \in 1..Len(list.items) :
          /\ list.items[i].t = "map"
          /\ OwnKeys(list.items[i]) # <<>>
          /\ AllKeyed(RawChildren(list.items[i]))

RECURSIVE SameShape(_, _)
\* the parsed sections mirror the raw items one for one, in order
SameShape(list, sections) ==
    /\ Len(sections) = Len(list.items)
    /\ \A i \in 1..Len(sections) :
          /\ sections[i].id = OwnKeys(list.items[i])[1]
          /\ sections[i].title = String(Get(list.items[i], OwnKeys(list.items[i])[1]))
          /\ SameShape(RawChildren(list.items[i]), sections[i].children)

RawSections == Get(Get(RawWork, "en"), "sections")

\* C8: a raw section list whose items all have a non-reserved key parses to a tree
\* of the same shape: as many sections at every level, in the same order, each with
\* id = its first non-reserved key, title = that key's value (as a string) and
\* children = the parsed items of its sections key; further keys are ignored.
C8_SameShape ==
    Parsed /\ RawSections.t = "list" /\ AllKeyed(RawSections) =>
        SameShape(RawSections, result.sections)

\* two top-level sections, a nested one, and an item with a second non-reserved key
C8_Witness ==
    /\ Parsed /\ RawSections.t = "list" /\ AllKeyed(RawSections)
    /\ Len(result.sections) = 2
    /\ \E i \in 1..2 : Len(result.sections[i].children) = 1
    /\ \E i \in 1..2 : Len(OwnKeys(RawSections.items[i])) > 1

IsId(j) == j.t = "str" /\ j.s # ""

\* C9 as stated: for every record the Work's author list is non-empty and holds
\* only author ids.
C9_AuthorsAsStated ==
    Parsed => /\ Len(result.authors) > 0
              /\ \A i \in 1..Len(result.authors) : IsId(result.authors[i])

RawAuthor == Get(RawWork, "author")

\* C9 amended: for every record whose author field is a single id or a non-empty
\* list of ids, the Work's author list is non-empty and holds exactly those ids,
\* in order.
C9_Authors ==
    Parsed =>
        /\ IsId(RawAuthor) => result.authors = <<RawAuthor>>
        /\ (RawAuthor.t = "list" /\ RawAuthor.items # <<>>
               /\ \A i \in 1..Len(RawAuthor.items) : IsId(RawAuthor.items[i]))
             => result.authors = RawAuthor.items

\* a record whose author field is a list of two ids
C9_Witness ==
    /\ Parsed /\ RawAuthor.t = "list"
    /\ result.authors = <<JStr("Q1"), JStr("Q2")>>

Absent(j) == j.t \in {"undef", "null"}

RECURSIVE SectionListOk(_)
\* absent, or a list of mappings whose sections are again such lists
SectionListOk(v) ==
    \/ Absent(v)
    \/ /\ v.t = "list"
       /\ \A i \in 1..Len(v.items) :
             v.items[i].t = "map" /\ SectionListOk(Get(v.items[i], "sections"))

\* absent, or a list of mappings each of which satisfies Ok
ListOfMaps(v, Ok(_)) ==
    \/ Absent(v)
    \/ v.t = "list" /\ \A i \in 1..Len(v.items) : v.items[i].t = "map" /\ Ok(v.items[i])

SiteOk(st) ==
    /\ ListOfMaps(Get(st, "section_urls"), LAMBDA x : TRUE)
    /\ ListOfMaps(Get(st, "text"), LAMBDA x : TRUE)
TranslationOk(tr) == ListOfMaps(Get(tr, "sites"), SiteOk)
EditionOk(ed) == ListOfMaps(Get(ed, "sites"), LAMBDA x : TRUE)

\* the fields of the raw work have the shapes of the documented schema
WellShaped ==
    /\ SectionListOk(Get(Get(RawWork, "en"), "sections"))
    /\ ListOfMaps(Get(Get(RawWork, "en"), "translations"), TranslationOk)
    /\ \A i \in 1..Len(Keys(RawWork)) :
          ListOfMaps(Get(Vals(RawWork)[i], "editions"), EditionOk)
    /\ LET ca == Get(RawWork, "corporate_author")
       IN  \/ Absent(ca) \/ ca.t = "str"
           \/ ca.t = "map" /\ Get(ca, "label").t = "str"

Keyless(item) == item.t = "map" /\ OwnKeys(item) = <<>>

RECURSIVE PruneItems(_)
\* a raw section list without the items that have reserved keys only, at every depth
PruneItems(items) ==
    LET kept == SelectSeq(items, LAMBDA x : ~Keyless(x))
    IN  [i \in 1..Len(kept) |->
            IF kept[i].t = "map" /\ HasKey(kept[i], "sections")
                                 /\ Get(kept[i], "sections").t = "list"
            THEN Put(kept[i], "sections", JList(PruneItems(Get(kept[i], "sections").items)))
            ELSE kept[i]]

PrunedBlock(en) ==
    IF en.t = "map" /\ HasKey(en, "sections") /\ Get(en, "sections").t = "list"
    THEN Put(en, "sections", JList(PruneItems(Get(en, "sections").items)))
    ELSE en

PrunedWork(work) ==
    IF work.t = "map" /\ HasKey(work, "en") THEN Put(work, "en", PrunedBlock(Get(work, "en")))
    ELSE work

\* the record as it reads when its section items with reserved keys only are struck out
Pruned ==
    IF data.t = "map" /\ HasKey(data, String(fileId))
    THEN Put(data, String(fileId), PrunedWork(RawWork))
    ELSE data

\* C23: a raw section item whose keys are all reserved is dropped without error
\* with its whole subtree: the call returns what it returns for the record
\* without that item, so that the item is in nobody's children, not in
\* flatSections, and its topics are not in the Work's topic set.
C23_KeylessDropped ==
    pc = "parsed" /\ Pruned # data =>
        result = parseWork(fileId, Pruned, translatorsMap)

\* an item with reserved keys only that has a sub-section, before a section that is kept
C23_Witness ==
    /\ Parsed
    /\ Len(result.sections) = 1
    /\ Len(result.flatSections) = 1
    /\ Len(Get(Get(RawWork, "en"), "sections").items) = 2
    /\ Keyless(Get(Get(RawWork, "en"), "sections").items[1])
    /\ Truthy(Get(Get(Get(RawWork, "en"), "sections").items[1], "sections"))

\* C22 as stated: the topics of every Section parseWork returns, at every
\* depth, hold no slug twice, whether the raw value was a scalar or a list.
C22_SectionTopicsDistinctAsStated ==
    Parsed => \A i \in 1..Len(result.flatSections) : NoDuplicate(result.flatSections[i].loci)

----------------------------------------------------------------------------
(* Properties of the build *)

\* the display names of lociIndex are computed
NamesComputed ==
    pc \in {"tradition", "worksIndex", "translators", "whatsNew", "done",
            "abortedTranslators", "abortedWhatsNew"}

\* the loci index of this run is built
IndexBuilt == pc = "names" \/ NamesComputed

\* the author pages of this run are built
PagesBuilt == pc \in {"index", "abortedIndex"} \/ IndexBuilt

Topics == 1..Len(lociIndex.keys)

TopicAuthors(i) == lociIndex.vals[i].vals

HasOverride(a) == a.shortName # JNull

\* the family-name group of a: the authors of the topic without override that
\* carry a's family name
FamilyGroup(a, topicAuthors) ==
    {j \in 1..Len(topicAuthors) :
        ~HasOverride(topicAuthors[j]) /\ topicAuthors[j].familyName = a.familyName}

\* the members of a's group whose given name starts with the letter a's starts with
SharingInitial(a, topicAuthors) ==
    {j \in FamilyGroup(a, topicAuthors) :
        Char(topicAuthors[j].givenName.s, 1) = Char(a.givenName.s, 1)}

WithInitial(a) == Char(a.givenName.s, 1) \o ". " \o a.familyName.s

\* the rule of display names; Suffix(a) is what a sub-collision appends to a's name
DisplayRule(Suffix(_)) ==
    \A i \in Topics : \A j \in 1..Len(TopicAuthors(i)) :
        LET a == TopicAuthors(i)[j]
            group == FamilyGroup(a, TopicAuthors(i))
        IN  IF HasOverride(a) THEN a.displayName = a.shortName
            ELSE IF group = {j} THEN a.displayName = a.familyName
            ELSE IF Cardinality(SharingInitial(a, TopicAuthors(i))) >= 2
                 THEN a.displayName = JStr(WithInitial(a) \o Suffix(a))
                 ELSE a.displayName = JStr(WithInitial(a))

BirthSuffix(a) == " (b. " \o String(a.birthYear) \o ")"

\* C1 as stated: an override is used verbatim and stays out of the family-name
\* groups; a family name alone in its topic is the display name; otherwise the
\* name is initial, ". ", family name, and when two of the group share the
\* initial the birth year is appended to each of them.
C1_DisplayNamesAsStated == NamesComputed => DisplayRule(BirthSuffix)

\* C1: as above, except that in a sub-collision the birth year is appended to
\* the authors that have one, and an author without birth year keeps initial
\* and family name.
C1_DisplayNames ==
    NamesComputed =>
        DisplayRule(LAMBDA a : IF a.birthYear # JNull THEN BirthSuffix(a) ELSE "")

\* a topic where the two John Owens share family name and initial and are told
\* apart by birth year
C1_Witness ==
    /\ pc = "done"
    /\ \E i \in Topics : \E j, k \in 1..Len(TopicAuthors(i)) :
           /\ TopicAuthors(i)[j].displayName = JStr("J. Owen (b. 1616)")
           /\ TopicAuthors(i)[k].displayName = JStr("J. Owen (b. 1683)")

\* the pages that list work w
Holders(w) ==
    {p \in 1..Len(authorPages) :
        \E k \in 1..Len(authorPages[p].works) : authorPages[p].works[k].id = w.id}

\* the copies of work w on page p
CopiesOn(p, w) == SelectSeq(authorPages[p].works, LAMBDA x : x.id = w.id)

OthersOf(w, i) ==
    SelectSeq([j \in 1..Len(w.authors) |-> <<j, w.authors[j]>>], LAMBDA x : x[1] # i)

CorporateWorks == {i \in 1..Len(works) : works[i].corporateAuthor # JNull}

\* C2: a work with a corporate author and authors a1..an is on exactly n+1
\* pages: the corporate page (with the cached profile's slug when the corporate
\* id is cached) and the page of each ai, whose copy lists as coMembers the
\* other authors in author-list order.
C2_CorporatePages ==
    PagesBuilt =>
        \A i \in CorporateWorks :
            LET w == works[i]
                ca == w.corporateAuthor
            IN  /\ Cardinality(Holders(w)) = Len(w.authors) + 1
                /\ \E p \in Holders(w) :
                       /\ authorPages[p].isCorporate
                       /\ authorPages[p].name = ca.label
                       /\ (ca.qid # JNull /\ HasKey(authors, String(ca.qid))
                              => authorPages[p].slug = Get(Get(authors, String(ca.qid)), "slug"))
                /\ \A n \in 1..Len(w.authors) :
                       \E p \in Holders(w) :
                           /\ ~authorPages[p].isCorporate
                           /\ authorPages[p].qid = w.authors[n]
                           /\ Len(CopiesOn(p, w)) = 1
                           /\ [k \in 1..Len(CopiesOn(p, w)[1].coMembers) |->
                                  CopiesOn(p, w)[1].coMembers[k].qid]
                              = [k \in 1..Len(OthersOf(w, n)) |-> OthersOf(w, n)[k][2]]

\* a work of three authors under a corporate author without id, and a work of
\* two under a cached corporate id
C2_Witness ==
    /\ pc = "done"
    /\ \E i, j \in CorporateWorks :
           /\ Len(works[i].authors) = 3 /\ works[i].corporateAuthor.qid = JNull
           /\ Len(works[j].authors) = 2
           /\ HasKey(authors, String(works[j].corporateAuthor.qid))
           /\ \E p \in Holders(works[j]) :
                  authorPages[p].isCorporate /\ authorPages[p].slug = JStr("owen-society")

CorporateKey(w) == String(Or(w.corporateAuthor.qid, w.corporateAuthor.slug))

RECURSIVE SectionLoci(_)
\* the loci of the sections of a work, sub-sections included
SectionLoci(sections) ==
    IF sections = <<>> THEN {}
    ELSE SeqSet(Head(sections).loci) \cup SectionLoci(Head(sections).children)
             \cup SectionLoci(Tail(sections))

\* the keys under which topic i lists an entry of work w
KeysOf(i, w) ==
    {lociIndex.vals[i].keys[j] : j \in
        {j \in 1..Len(TopicAuthors(i)) :
            \E k \in 1..Len(TopicAuthors(i)[j].entries) :
                TopicAuthors(i)[j].entries[k].workId = w.id}}

\* C3: in the index every entry of a work with a corporate author is under the
\* corporate identity (its id, or its slug without id) and under none of the
\* work's authors; an author id is a key of a topic only through a work
\* without corporate author.
C3_CorporateIdentity ==
    IndexBuilt =>
        \A n \in 1..Len(works) :
            LET w == works[n]
                topics == SeqSet(w.workLoci) \cup SectionLoci(w.sections)
            IN  \A i \in Topics :
                    KeysOf(i, w) =
                        IF lociIndex.keys[i] \notin topics THEN {}
                        ELSE IF w.corporateAuthor # JNull THEN {CorporateKey(w)}
                        ELSE {String(w.author)}

\* a topic lists John Owen for his own work next to a corporate author he is a
\* member of, with and without corporate id
C3_Witness ==
    /\ pc = "done"
    /\ \E i \in Topics : \E m, n \in 1..Len(works) :
           /\ works[m].corporateAuthor = JNull
           /\ works[n].corporateAuthor # JNull
           /\ works[m].author \in SeqSet(works[n].authors)
           /\ KeysOf(i, works[m]) # {}
           /\ KeysOf(i, works[n]) # {}

\* C4: the index of a second build over the same files, author cache and
\* overrides equals the index of the first, key for key and entry for entry.
C4_SameIndex == pc = "done" /\ runs > 1 => lociIndex = prevIndex

\* the second build is done and its index has an author with two entries
C4_Witness ==
    /\ pc = "done"
    /\ runs > 1
    /\ \E i \in Topics : \E j \in 1..Len(TopicAuthors(i)) :
           Len(TopicAuthors(i)[j].entries) >= 2

----------------------------------------------------------------------------
(* Properties of loadAllWorks *)

\* the .yaml entries of the directory
YamlFiles == {i \in 1..Len(files) : EndsWith(files[i].name, ".yaml")}

\* the entries whose record loads and parses to a Work
GoodFiles == {i \in YamlFiles : LoadFile(files[i], translatorsMap).t = "work"}

\* the entries whose loading or parsing raises
BadFiles == {i \in YamlFiles : LoadFile(files[i], translatorsMap) = Raise}

\* the place of entry i among the entries S when they are put in name order
Rank(S, i) == 1 + Cardinality({j \in S : StrLess(files[j].name, files[i].name)})

\* C11: loadAllWorks returns exactly the Works of the records that parse, in
\* lexical file name order; each record that fails is reported with file name
\* and message and skipped, and the records after it are still loaded.
C11_PartialSuccess ==
    pc = "loaded" =>
        /\ Len(works) = Cardinality(GoodFiles)
        /\ \A i \in GoodFiles :
               works[Rank(GoodFiles, i)] = LoadFile(files[i], translatorsMap)
        /\ Len(errors) = Cardinality(BadFiles)
        /\ \A i \in BadFiles :
               /\ errors[Rank(BadFiles, i)].file = files[i].name
               /\ errors[Rank(BadFiles, i)].message = MessageOf(files[i])

\* a directory listed out of name order, where a file with a syntax error
\* comes before two files that load
C11_Witness ==
    /\ pc = "loaded"
    /\ Len(files) = 3
    /\ StrLess(files[3].name, files[1].name)
    /\ \E i \in BadFiles :
           /\ files[i].data = YamlError
           /\ Rank(YamlFiles, i) = 1
    /\ Len(works) = 2
    /\ Len(errors) = 1

\* C12 as stated: in the list loadAllWorks returns, each Work's id is the stem
\* of the file it was loaded from, and no two Works share an id.
C12_UniqueIdsAsStated ==
    pc = "loaded" =>
        /\ \A i \in GoodFiles :
               works[Rank(GoodFiles, i)].id = JStr(Stem(files[i].name))
        /\ \A i, j \in 1..Len(works) : i # j => works[i].id # works[j].id

----------------------------------------------------------------------------
(* Properties of buildLociFlat *)

RECURSIVE PathsOf(_)
\* the nodes of a forest, each named by the child positions that lead to it
PathsOf(nodes) ==
    UNION {{<<i>>} \cup {<<i>> \o q : q \in PathsOf(ChildNodes(nodes[i]))} :
              i \in 1..Len(nodes)}

TopicPaths == PathsOf(lociTree.items)

RECURSIVE NodeAt(_, _)
NodeAt(nodes, path) ==
    IF Len(path) = 1 THEN nodes[path[1]]
    ELSE NodeAt(ChildNodes(nodes[path[1]]), Tail(path))

SlugAt(path) == Get(NodeAt(lociTree.items, path), "slug")

\* the nodes reachable from the children of the node at path
Below(path) ==
    {q \in TopicPaths : Len(q) > Len(path) /\ SubSeq(q, 1, Len(path)) = path}

\* no two nodes of the forest carry the same slug
UniqueSlugs == \A p, q \in TopicPaths : p # q => SlugAt(p) # SlugAt(q)

FlatTopic(slug) == Get(lociFlat, String(slug))

\* C13: for every topic X of a taxonomy (its slugs being unique), the FlatTopic
\* of X lists as descendants exactly the slugs of the nodes reachable from X's
\* children, without duplicate and without X; its ancestors are the path from
\* the root to its parent, and X is among the descendants of each of them.
C13_Descendants ==
    pc = "flat" /\ UniqueSlugs =>
        \A p \in TopicPaths :
            LET topic == FlatTopic(SlugAt(p))
            IN  /\ SeqSet(topic.descendants) = {SlugAt(q) : q \in Below(p)}
                /\ NoDuplicate(topic.descendants)
                /\ SlugAt(p) \notin SeqSet(topic.descendants)
                /\ topic.ancestors = [k \in 1..(Len(p) - 1) |-> SlugAt(SubSeq(p, 1, k))]
                /\ \A k \in 1..Len(topic.ancestors) :
                       SlugAt(p) \in SeqSet(FlatTopic(topic.ancestors[k]).descendants)

\* a taxonomy of three topics, one below the other: the root has a grandchild
C13_Witness ==
    /\ pc = "flat" /\ UniqueSlugs
    /\ Len(lociFlat.keys) = 3
    /\ \E p \in TopicPaths : Len(p) = 3
    /\ \E p \in TopicPaths : Len(p) = 1 /\ Len(FlatTopic(SlugAt(p)).descendants) = 2

\* C14 as stated: when two nodes of the forest carry the same slug, flattening
\* fails with a DuplicateSlugError; the flat lookup is never returned with one
\* of the two nodes overwritten.
C14_DuplicateSlugFailsAsStated ==
    pc = "flat" /\ ~UniqueSlugs => lociFlat = Raise

----------------------------------------------------------------------------
(* Properties of buildAuthorPages *)

\* buildAuthorPages has been called in this run
PagesStageOver == PagesBuilt \/ pc = "abortedPages"

\* the author ids of the corpus: the entries of the author lists of the works
AuthorIds == UNION {SeqSet(works[i].authors) : i \in 1..Len(works)}

\* the ids of the corpus that are names (strings) without an entry in the cache
UncachedIds == {q \in AuthorIds : q.t = "str" /\ ~Truthy(Get(authors, q.s))}

\* C15: for every author id of the corpus that has no entry in the author
\* cache, buildAuthorPages does not throw on account of it and returns a page
\* made from the stub profile: name = the id, slug = slugify(id), birthYear,
\* deathYear and imageUrl null.
C15_StubPages ==
    PagesStageOver =>
        /\ (\A q \in AuthorIds : q.t = "str") => pc # "abortedPages"
        /\ pc # "abortedPages" =>
              \A q \in UncachedIds :
                  \E i \in 1..Len(authorPages) :
                      /\ ~authorPages[i].isCorporate
                      /\ authorPages[i].qid = q
                      /\ authorPages[i].name = q
                      /\ authorPages[i].slug = JStr(slugify(q.s))
                      /\ authorPages[i].birthYear = JNull
                      /\ authorPages[i].deathYear = JNull
                      /\ authorPages[i].imageUrl = JNull

\* a build whose corpus has the uncached author Q4, alone and as a member of a
\* corporate work, has come through buildAuthorPages
C15_Witness ==
    /\ pc = "index"
    /\ JStr("Q4") \in UncachedIds
    /\ \E i \in 1..Len(works) : works[i].corporateAuthor # JNull
                                /\ JStr("Q4") \in SeqSet(works[i].authors)
    /\ \E i \in 1..Len(authorPages) :
           authorPages[i].qid = JStr("Q4") /\ authorPages[i].slug = JStr("q4")

HasBirthYear(p) == p.birthYear # JNull

\* C17: the list returned by buildAuthorPages is in ascending order of birth
\* year, every page without a birth year coming after every page with one.
C17_BirthOrder ==
    PagesBuilt =>
        \A i, j \in 1..Len(authorPages) :
            i < j =>
                /\ HasBirthYear(authorPages[j]) => HasBirthYear(authorPages[i])
                /\ HasBirthYear(authorPages[i]) /\ HasBirthYear(authorPages[j])
                       => authorPages[i].birthYear.n <= authorPages[j].birthYear.n

\* pages built from a corpus that names an author without birth year before
\* authors with one, and a later-born author before an earlier-born one
C17_Witness ==
    /\ pc = "index"
    /\ Len(works) = 2
    /\ works[1].author = JStr("Q4")
    /\ works[2].authors = <<JStr("Q3"), JStr("Q1"), JStr("Q4")>>
    /\ [i \in 1..Len(authorPages) |-> authorPages[i].birthYear]
           = <<JNum(1616), JNum(1623), JNull, JNull>>

\* C28 as stated: no two pages of the list buildAuthorPages returns have the
\* same slug, so that /authors/[slug]/ designates one page.
C28_PageSlugsDistinctAsStated ==
    PagesBuilt =>
        \A p, q \in 1..Len(authorPages) :
            p # q => authorPages[p].slug # authorPages[q].slug

\* C24 as stated: on the page of an individual author origLangName is the
\* label of the first entry of authorLabels when there is one, and the name
\* otherwise.
C24_OrigLangNameAsStated ==
    PagesBuilt =>
        \A p \in 1..Len(authorPages) :
            ~authorPages[p].isCorporate =>
                authorPages[p].origLangName =
                    IF authorPages[p].authorLabels # <<>>
                    THEN authorPages[p].authorLabels[1].label
                    ELSE authorPages[p].name

----------------------------------------------------------------------------
(* Properties of the recency feed *)

\* the position in the corpus of the work of feed item k
FeedPos(k) == CHOOSE i \in 1..Len(works) : works[i].id = whatsNew[k].id

\* the positions of the works that have a dateAdded
Dated == {i \in 1..Len(works) : works[i].dateAdded # JNull}

\* the (translation, site) pairs of a work in translation order, then site order
SitePairs(w) ==
    Flatten([j \in 1..Len(w.translations) |->
                [k \in 1..Len(w.translations[j].sites) |-> <<j, k>>]])

\* C18: the feed holds only works with a dateAdded, in non-increasing order of
\* dateAdded with equal dates in corpus order, at most 100 of them, no omitted
\* dated work being later than an included one; the translations of an item
\* are one row per (translation, site) pair of its work.
C18_Feed ==
    pc = "fed" =>
        LET pos == SubSeq([k \in 1..Len(whatsNew) |-> FeedPos(k)], 1, Len(whatsNew))
        IN  /\ Len(whatsNew) <= WHATS_NEW_LIMIT
            /\ Len(whatsNew) = IF Cardinality(Dated) < WHATS_NEW_LIMIT
                               THEN Cardinality(Dated) ELSE WHATS_NEW_LIMIT
            /\ \A k \in 1..Len(whatsNew) :
                   /\ \E i \in Dated : works[i].id = whatsNew[k].id
                   /\ whatsNew[k].dateAdded = works[pos[k]].dateAdded
                   /\ LET w == works[pos[k]]
                          rows == whatsNew[k].translations
                      IN  /\ Len(rows) = Len(SitePairs(w))
                          /\ \A r \in 1..Len(rows) :
                                 LET tr == w.translations[SitePairs(w)[r][1]]
                                     site == tr.sites[SitePairs(w)[r][2]]
                                 IN  /\ rows[r].translator = tr.translator
                                     /\ rows[r].siteName = site.siteName
                                     /\ rows[r].url = site.url
            /\ \A k, l \in 1..Len(whatsNew) :
                   k < l =>
                       /\ ~StrLess(whatsNew[k].dateAdded.s, whatsNew[l].dateAdded.s)
                       /\ whatsNew[k].dateAdded = whatsNew[l].dateAdded => pos[k] < pos[l]
            /\ \A i \in Dated :
                   (\A k \in 1..Len(whatsNew) : pos[k] # i) =>
                       \A k \in 1..Len(whatsNew) :
                           ~StrLess(whatsNew[k].dateAdded.s, works[i].dateAdded.s)

\* a feed cut to 100 items out of more dated works, with two dates in it and
\* an item of several rows
C18_Witness ==
    /\ pc = "fed"
    /\ Cardinality(Dated) > WHATS_NEW_LIMIT
    /\ Len(whatsNew) = WHATS_NEW_LIMIT
    /\ whatsNew[1].dateAdded = JStr("2024-01-15")
    /\ whatsNew[WHATS_NEW_LIMIT].dateAdded = JStr("2023-12-31")
    /\ \E k \in 1..Len(whatsNew) : Len(whatsNew[k].translations) >= 3

----------------------------------------------------------------------------
(* Properties of buildTranslatorIndex *)

\* the (work, translation, site) triples of the corpus, by position
SiteTriples ==
    {<<i, j, k>> \in (1..Len(works)) \X (1..MaxEntries + 1) \X (1..2) :
        /\ j <= Len(works[i].translations)
        /\ k <= Len(works[i].translations[j].sites)}

TripleSite(x) == works[x[1]].translations[x[2]].sites[x[3]].siteName.s

TripleTranslator(x) == works[x[1]].translations[x[2]].translator.s

\* the positions <<site, translator, row>> of the work rows of the index
RowPositions ==
    {<<s, t, r>> \in (1..Len(translatorIndex)) \X (1..Cardinality(TrEditions))
                         \X (1..Cardinality(SiteTriples)) :
        /\ t <= Len(translatorIndex[s].translators)
        /\ r <= Len(translatorIndex[s].translators[t].works)}

\* the rows of work id listed under the site and translator of these names
RowsUnder(siteName, translatorName, id) ==
    {p \in RowPositions :
        /\ translatorIndex[p[1]].name.s = siteName
        /\ translatorIndex[p[1]].translators[p[2]].name.s = translatorName
        /\ translatorIndex[p[1]].translators[p[2]].works[p[3]].workId = id}

\* the site and translator names of the index, and of the triples, in lower case
IndexKeys ==
    [s \in 1..Len(translatorIndex) |->
        [site |-> ToLowerCase(translatorIndex[s].name.s),
         translators |-> [t \in 1..Len(translatorIndex[s].translators) |->
                             ToLowerCase(translatorIndex[s].translators[t].name.s)]]]

TripleKeys ==
    [x \in SiteTriples |-> [site |-> ToLowerCase(TripleSite(x)),
                            translator |-> ToLowerCase(TripleTranslator(x))]]

\* a before b, or equal to it, by last name token then full name
TranslatorOrdered(a, b) ==
    \/ localeCompare(LastWord(a.name.s), LastWord(b.name.s)) < 0
    \/ /\ LastWord(a.name.s) = LastWord(b.name.s)
       /\ localeCompare(a.name.s, b.name.s) <= 0

\* row a before row b, or equal to it, by author name then title
RowOrdered(a, b) ==
    \/ localeCompare(a.authorName.s, b.authorName.s) < 0
    \/ /\ a.authorName = b.authorName
       /\ localeCompare(a.title.s, b.title.s) <= 0

\* the translators of every site and the rows of every translator are in order
IndexOrdered ==
    \A s \in 1..Len(translatorIndex) :
        LET trs == translatorIndex[s].translators
        IN  /\ \A t, u \in 1..Len(trs) : t < u => TranslatorOrdered(trs[t], trs[u])
            /\ \A t \in 1..Len(trs) :
                   \A q, r \in 1..Len(trs[t].works) :
                       q < r => RowOrdered(trs[t].works[q], trs[t].works[r])

\* C19 (as stated): every (Work, translation, site) triple yields exactly one
\* work row, placed under that site's name and that translator's name; the
\* rows are as many as the triples; translators are ordered by last name token
\* then full name, rows by author name then title.
C19_InversionAsStated ==
    pc = "inverted" =>
        /\ Cardinality(RowPositions) = Cardinality(SiteTriples)
        /\ \A x \in SiteTriples :
               Cardinality(RowsUnder(TripleSite(x), TripleTranslator(x), works[x[1]].id))
                   = Cardinality({y \in SiteTriples : /\ y[1] = x[1]
                                                      /\ TripleSite(y) = TripleSite(x)
                                                      /\ TripleTranslator(y) = TripleTranslator(x)})
        /\ IndexOrdered

\* C19: every (Work, translation, site) triple yields exactly one work row,
\* placed under the one site entry and the one translator entry whose names are
\* the triple's site and translator names up to letter case; the rows are as
\* many as the triples; within a site the translators are ordered by last name
\* token then full name, within a translator the rows by author name then title.
C19_Inversion ==
    pc = "inverted" =>
        LET index == IndexKeys @@ <<>>
            triple == TripleKeys @@ <<>>
            rows == RowPositions
        IN  /\ Cardinality(rows) = Cardinality(SiteTriples)
            /\ \A s, u \in 1..Len(translatorIndex) : s # u => index[s].site # index[u].site
            /\ \A s \in 1..Len(translatorIndex) :
                   \A t, u \in 1..Len(index[s].translators) :
                       t # u => index[s].translators[t] # index[s].translators[u]
            /\ \A x \in SiteTriples :
                   Cardinality({p \in rows :
                       /\ index[p[1]].site = triple[x].site
                       /\ index[p[1]].translators[p[2]] = triple[x].translator
                       /\ translatorIndex[p[1]].translators[p[2]].works[p[3]].workId
                              = works[x[1]].id})
                       = Cardinality({y \in SiteTriples : y[1] = x[1] /\ triple[y] = triple[x]})
            /\ IndexOrdered

\* an index in which one site, entered under two spellings, lists two
\* translators whose order by last name is not their order by full name
C19_Witness ==
    /\ pc = "inverted"
    /\ Cardinality(SiteTriples) = 3
    /\ \E s \in 1..Len(translatorIndex) :
           /\ translatorIndex[s].name = JStr("ccel")
           /\ Len(translatorIndex[s].translators) = 2
           /\ translatorIndex[s].translators[1].name = JStr("John Allen")
           /\ translatorIndex[s].translators[2].name = JStr("Henry Beveridge")
    /\ \E i \in 1..Len(works) : \E j \in 1..Len(works[i].translations) :
           works[i].translations[j].sites[1].siteName = JStr("CCEL")

\* C20 (as stated): the bio of a translator is looked up by name without
\* regard to letter case: every parsed translation whose translator name equals
\* a key of the translator metadata map up to letter case carries the bio info
\* of that key.
C20_BioIgnoresCaseAsStated ==
    pc = "inverted" =>
        \A i \in 1..Len(works) :
            \A j \in 1..Len(works[i].translations) :
                \A k \in 1..Len(Keys(translatorsMap)) :
                    ToLowerCase(Keys(translatorsMap)[k])
                        = ToLowerCase(works[i].translations[j].translator.s)
                    => works[i].translations[j].translatorInfo
                           = Get(translatorsMap, Keys(translatorsMap)[k])

----------------------------------------------------------------------------
(* Properties of the pipeline entry point *)

\* the build has ended in an exception thrown after the taxonomy was loaded
AbortedAfterTaxonomy ==
    pc \in {"abortedPages", "abortedIndex", "abortedTranslators", "abortedWhatsNew"}

\* C16 (as stated): once the taxonomy has loaded, the entry point runs every
\* stage and returns its outputs for any corpus, cache and side files; a record
\* without an author field never aborts the build, only a taxonomy failure does.
C16_OnlyTaxonomyAbortsAsStated == ~AbortedAfterTaxonomy

----------------------------------------------------------------------------
(* Properties of buildLociIndex *)

\* the id a work is indexed under: the corporate identity, else the first author
AuthorIdOf(w) == IF w.corporateAuthor # JNull THEN CorporateKey(w) ELSE String(w.author)

\* the entry of work w for a section, or for the work itself (section null)
EntryOf(w, section) ==
    [workId |-> w.id,
     workTitle |-> w.title,
     sectionId |-> IF section = JNull THEN JNull ELSE JStr(section.id),
     sectionTitle |-> IF section = JNull THEN JNull ELSE JStr(section.title)]

\* one attachment of a topic: the topic, the id of the work's author, the entry
Attachment(w, slug, section) ==
    [slug |-> slug, key |-> AuthorIdOf(w), entry |-> EntryOf(w, section)]

RECURSIVE SectionAttachments(_, _)
\* the topics attached to the sections of w, sub-sections included, in document order
SectionAttachments(w, sections) ==
    IF sections = <<>> THEN <<>>
    ELSE [k \in 1..Len(Head(sections).loci) |->
             Attachment(w, Head(sections).loci[k], Head(sections))]
         \o SectionAttachments(w, Head(sections).children)
         \o SectionAttachments(w, Tail(sections))

\* the topics attached to w: at work level, then in its sections
WorkAttachments(w) ==
    [k \in 1..Len(w.workLoci) |-> Attachment(w, w.workLoci[k], JNull)]
        \o SectionAttachments(w, w.sections)

\* the attachments of the corpus, work by work
Attachments == Flatten([n \in 1..Len(works) |-> WorkAttachments(works[n])])

\* the entries the attachments of a topic make under one author id
EntriesFor(slug, key) ==
    LET mine == SelectSeq(Attachments, LAMBDA a : a.slug = slug /\ a.key = key)
    IN  [k \in 1..Len(mine) |-> mine[k].entry]

\* the number of entries listed under topic i
EntryCount(i) == Len(Flatten([j \in 1..Len(TopicAuthors(i)) |-> TopicAuthors(i)[j].entries]))

C26_DisplayNamesDistinctAsStated ==
    NamesComputed =>
        \A i \in Topics : \A j, k \in 1..Len(TopicAuthors(i)) :
            j # k => TopicAuthors(i)[j].displayName # TopicAuthors(i)[k].displayName

\* the pages whose id is the key
PagesWithId(key) == {p \in 1..Len(authorPages) : String(authorPages[p].qid) = key}

\* C27 as stated: every author key of every topic is the id of exactly one
\* author page, and the slug of the entry is the slug of that page.
C27_KeysArePagesAsStated ==
    IndexBuilt =>
        \A i \in Topics : \A j \in 1..Len(TopicAuthors(i)) :
            /\ Cardinality(PagesWithId(lociIndex.vals[i].keys[j])) = 1
            /\ \A p \in PagesWithId(lociIndex.vals[i].keys[j]) :
                   authorPages[p].slug = TopicAuthors(i)[j].slug

----------------------------------------------------------------------------
(* Properties of the corporate slug *)

\* the slug lines 376-379 and 285-296 give the corporate author of w
CorporateSlugOf(w) ==
    IF Truthy(w.corporateAuthor.qid) /\ HasKey(authors, String(w.corporateAuthor.qid))
    THEN Get(Get(authors, String(w.corporateAuthor.qid)), "slug")
    ELSE JStr(slugify(w.corporateAuthor.label.s))

\* the works with a corporate author
Corporate == {n \in 1..Len(works) : works[n].corporateAuthor # JNull}

\* the rows of the translator index, site by site and translator by translator
TranslatorRows ==
    Flatten([i \in 1..Len(translatorIndex) |->
        Flatten([j \in 1..Len(translatorIndex[i].translators) |->
            translatorIndex[i].translators[j].works])])

\* the translator index, and the recency feed, of this run are built
TranslatorsBuilt == pc \in {"whatsNew", "abortedWhatsNew", "done"}
FeedBuilt == pc = "done"

\* C25: a corporate author with an id leaves the parser with a null slug and one
\* given as a bare label with slugify(label); on every run buildAuthorPages
\* resolves the null slug (cached slug, else slugify(label)) before the topic
\* index, the translator index and the feed are built, so that none of them
\* ever shows a null slug for a corporate author.
C25_SlugResolvedBeforeUse ==
    /\ pc = "pages" =>
           \A n \in Corporate :
               works[n].corporateAuthor.slug =
                   IF Truthy(works[n].corporateAuthor.qid) THEN JNull
                   ELSE JStr(slugify(works[n].corporateAuthor.label.s))
    /\ IndexBuilt =>
           \A i \in Topics : \A j \in 1..Len(TopicAuthors(i)) :
               /\ TopicAuthors(i)[j].slug # JNull
               /\ \A n \in Corporate :
                      CorporateKey(works[n]) = lociIndex.vals[i].keys[j] =>
                          TopicAuthors(i)[j].slug = CorporateSlugOf(works[n])
    /\ TranslatorsBuilt =>
           \A k \in 1..Len(TranslatorRows) :
               /\ TranslatorRows[k].authorSlug # JNull
               /\ \A n \in Corporate :
                      works[n].id = TranslatorRows[k].workId =>
                          TranslatorRows[k].authorSlug = CorporateSlugOf(works[n])
    /\ FeedBuilt =>
           \A k \in 1..Len(whatsNew) :
               /\ whatsNew[k].authorSlug # JNull
               /\ \A n \in Corporate :
                      works[n].id = whatsNew[k].id =>
                          whatsNew[k].authorSlug = CorporateSlugOf(works[n])

\* the second run is over, with a corporate author known by a cached id and one
\* by an id that is not cached, each in the topic index, on a translator row and
\* in the feed
C25_Witness ==
    /\ pc = "done"
    /\ runs > 1
    /\ \E m, n \in Corporate :
           /\ Truthy(works[m].corporateAuthor.qid)
           /\ HasKey(authors, String(works[m].corporateAuthor.qid))
           /\ Truthy(works[n].corporateAuthor.qid)
           /\ ~HasKey(authors, String(works[n].corporateAuthor.qid))
           /\ \A x \in {m, n} :
                  /\ \E i \in Topics : KeysOf(i, works[x]) # {}
                  /\ \E k \in 1..Len(TranslatorRows) : TranslatorRows[k].workId = works[x].id
                  /\ \E k \in 1..Len(whatsNew) : whatsNew[k].id = works[x].id

----------------------------------------------------------------------------
(* Properties of the index against the works and the taxonomy *)

\* the topic slugs the works of the corpus are tagged with
TaggedSlugs == UNION {SeqSet(works[n].allLoci) : n \in 1..Len(works)}

\* the work ids of the entries listed under topic i
IndexedIds(i) ==
    UNION {{TopicAuthors(i)[j].entries[e].workId : e \in 1..Len(TopicAuthors(i)[j].entries)} :
              j \in 1..Len(TopicAuthors(i))}

\* some entry under topic slug carries the work id
ListedUnder(slug, id) == \E i \in Topics : lociIndex.keys[i] = slug /\ id \in IndexedIds(i)

\* C29 as stated: for every work W of the corpus and every topic slug s, s is in
\* the topic set of W (allLoci) exactly when some entry under topic s of the
\* index has the work id of W.
C29_IndexAgreesWithTopicSetsAsStated ==
    pc = "indexed" =>
        \A n \in 1..Len(works) : \A s \in TaggedSlugs \cup SeqSet(lociIndex.keys) :
            (s \in SeqSet(works[n].allLoci)) <=> ListedUnder(s, works[n].id)

\* C30 as stated: every topic slug that is a key of the index is a slug of the
\* taxonomy, a key of the flat lookup buildLociIndex was given.
C30_IndexKeysInTaxonomyAsStated ==
    pc = "indexed" => \A i \in Topics : HasKey(lociFlat, lociIndex.keys[i])

====
